---- MODULE Spec2Model ----
(***************************************************************************)
(* The pattern execution engine of dune-weaver                             *)
(* (dune-weaver-flask/modules/core/pattern_manager.py): the module-level   *)
(* execution state, the single-file runner run_theta_rho_file, the         *)
(* playlist runner run_theta_rho_files, the schedule gate and the control  *)
(* plane stop / pause / resume.  Every statement that reads or writes a    *)
(* module global, the condition variable or the transport is one step of   *)
(* the thread that executes it; a step is named after the function and the *)
(* source line it models.                                                  *)
(***************************************************************************)
EXTENDS Integers, Sequences, FiniteSets, TLC

VARIABLES
    stop_requested,        \* pattern_manager.py:23
    pause_requested,       \* pattern_manager.py:24
    cond_owner,            \* holder of pause_condition's lock (line 25)
    cond_waiters,          \* tasks blocked in pause_condition.wait()
    current_playing_file,  \* pattern_manager.py:26
    execution_progress,    \* pattern_manager.py:27
    current_playing_index, \* pattern_manager.py:28
    current_playlist,      \* pattern_manager.py:29 (a reference to a list)
    is_clearing,           \* pattern_manager.py:30
    task,                  \* the run threads: position, arguments and locals
    ctl,                   \* the thread serving a stop/pause/resume request
    waiter,                \* the wait_for_start_time threads, by position
    now,                   \* datetime.now().time()
    hist                   \* history of the run, read by the properties only

globals == <<stop_requested, pause_requested, current_playing_file,
             execution_progress, current_playing_index, current_playlist,
             is_clearing>>
vars == <<stop_requested, pause_requested, cond_owner, cond_waiters,
          current_playing_file, execution_progress, current_playing_index,
          current_playlist, is_clearing, task, ctl, waiter, now, hist>>

----------------------------------------------------------------------------
(* Values *)

\* Python's None and a present value, for the optional globals.
None == <<>>
Some(x) == <<x>>

\* batch_size of run_theta_rho_file.
BatchSize == 10

\* The longest pattern of the model spans MaxBatches batches.
MaxBatches == 3

\* The longest playlist of the model.
MaxFiles == 2

\* The stop, pause and resume requests the model serves during a run
\* without a schedule window, and during a run with one (where the schedule
\* gate pauses the run as well).
MaxCalls == 2
MaxScheduledCalls == 1

\* The most wait_for_start_time threads alive at once in the model.
MaxWaiters == 1

\* CLEAR_PATTERNS: key -> path.
CLEAR_PATTERNS ==
    [clear_from_in  |-> "clear_from_in.thr",
     clear_from_out |-> "clear_from_out.thr",
     clear_sideway  |-> "clear_sideway.thr"]

ClearFiles == {CLEAR_PATTERNS[k] : k \in DOMAIN CLEAR_PATTERNS}

\* The pattern files of the model and the number of coordinates
\* parse_theta_rho_file returns for each (a missing file parses to []).
PatternFiles ==
    {"missing.thr", "one.thr", "short.thr", "full.thr", "two.thr", "long.thr"}

Points(path) ==
    CASE path = "missing.thr" -> 0
      [] path = "one.thr"     -> 1
      [] path = "short.thr"   -> BatchSize \div 2
      [] path = "full.thr"    -> BatchSize
      [] path = "two.thr"     -> BatchSize + 1
      [] path = "long.thr"    -> (MaxBatches - 1) * BatchSize + BatchSize \div 2
      [] OTHER                -> BatchSize + 1

\* The range taken with its end included.
BatchStartsInclusive(total) == {i \in 0..total : i % BatchSize = 0}

\* coordinates[i:i + batch_size]: the points from index i up to, and not
\* including, the smaller of i + batch_size and len(coordinates).
Slice(total, i) == <<i, IF i + BatchSize < total THEN i + BatchSize ELSE total>>

\* range(0, total_coordinates, batch_size)
BatchStarts(total) == {i \in 0..total : i % BatchSize = 0 /\ i < total}

\* The replies of the device to send_command.
Replies == {"R", "IGNORED"}

\* The run threads of the model, and the holders of pause_condition's lock.
Tasks == {"t1", "t2"}
Started == "t1"
NoOne == "none"
Ctl == "ctl"

\* The schedule window of the model, and the length of its day.
StartTime == 0
EndTime == 1
DayLen == 2
Window == <<StartTime, EndTime>>

----------------------------------------------------------------------------
(* Helpers *)

Merge(old, new) ==
    [k \in DOMAIN old |-> IF k \in DOMAIN new THEN new[k] ELSE old[k]]

\* The task r continues with its locals changed as in `new`.
Step(r, new) == task' = [task EXCEPT ![r] = Merge(task[r], new)]

At(r, label) == task[r].pc = label

\* The positions of a run thread inside run_theta_rho_file and inside
\* schedule_checker.
FilePcs == {"f159", "f160", "f161", "f162", "f168", "f169", "f170", "f174",
            "f177", "f182", "f183", "f185", "f186", "f186w", "f190", "f191",
            "f195", "f196", "f197", "f198", "f199", "f202", "f203", "f208",
            "f209", "f210"}
SchedulePcs == {"s131", "s132", "s137", "s138"}

\* The positions of the wait_for_start_time threads.
WaiterPcs == {"w145", "w147", "w149", "w150"}

----------------------------------------------------------------------------
(* History of a run, read by the properties only; no action of the       *)
(* program reads it.                                                      *)
(*   sent[r]     the batches (by first index) the current call of         *)
(*               run_theta_rho_file has passed to send_coordinate_batch   *)
(*   ack[r]      the last poll since the last batch returned "R"          *)
(*   failed[r]   the transport raised in the current call                 *)
(*   waited[r]   the current call has blocked in pause_condition.wait()   *)
(*   unpaused[r] the pause check of the current loop iteration found      *)
(*               pause_requested false                                    *)
(*   lateCall[r] the current call began (line 159) after stopped[r]       *)
(*               became other than "no"                                   *)
(*   stopCalled  a stop_execution call has begun                          *)
(*   atStop[r]   where run r was when the stop_execution call in progress *)
(*               began                                                    *)
(*   stopCtx[r]  where run r was, within its current call of              *)
(*               run_theta_rho_file, when the last stop_execution call    *)
(*               returned: "wait" (blocked in pause_condition.wait() when *)
(*               the call began), "retry" (in the handshake loop, the     *)
(*               batch not acknowledged), "other", or "none"              *)
(*   stopped[r]  a stop_execution call that began inside the playlist     *)
(*               loop of r has returned: "first" (pass), "later", or "no" *)
(*   passDone[r] the playlist run has completed a pass                    *)
(*   newPass[r]  a pass began after stopped[r] became "later"             *)
(*   lastFailed[r] the transport raised in the last call of               *)
(*               run_theta_rho_file that returned                         *)
(*   input[r]    file_paths as the thread of r was started with it        *)
(*   reported    what the MQTT handler last published of                  *)
(*               current_playing_file, current_playlist,                  *)
(*               current_playing_index and is_clearing (on: a handler is  *)
(*               set and enabled)                                         *)
(*   broke[r]    the last call of run_theta_rho_file by r left its loop   *)
(*               at the break of line 180 (stop observed)                 *)
(*   gate        the last write of pause_requested was that of line 137  *)
(*               (schedule_checker, outside the window)                   *)
(*   tail[r]     the end of the sequence of transport calls thread r has  *)
(*               made: "none" (no call yet), "reset" (reset_theta()),     *)
(*               "finished" (reset_theta() and then                       *)
(*               send_command("FINISHED")), or "other"                    *)

NoStop == [blocked |-> FALSE, inLoop |-> FALSE, afterPass |-> FALSE]

\* The end of the sequence of transport calls after one more call.
TailAfter(tail, call) ==
    IF call = "reset_theta" THEN "reset"
    ELSE IF call = "FINISHED" /\ tail = "reset" THEN "finished"
    ELSE "other"

\* send_coordinate_batch(coordinates[i:i + batch_size]) succeeded.
LogBatch(r, i) ==
    hist' = [hist EXCEPT !.sent[r] = Append(@, i), !.ack[r] = FALSE,
                         !.tail[r] = TailAfter(@, "batch")]

\* send_command("R") returned reply.
LogPoll(r, reply) ==
    hist' = [hist EXCEPT !.ack[r] = (reply = "R"),
                         !.tail[r] = TailAfter(@, "R")]

\* reset_theta() or send_command("FINISHED") returned.
LogCall(r, call) ==
    hist' = [hist EXCEPT !.tail[r] = TailAfter(@, call)]

\* The transport call raised inside the try block of run_theta_rho_file.
LogFailure(r, call) ==
    hist' = [hist EXCEPT !.failed[r] = TRUE,
                         !.tail[r] = TailAfter(@, call)]

----------------------------------------------------------------------------
(* The transport (modules/serial/serial_manager.py): every call either    *)
(* returns or raises on an I/O error.  Whether the link can fail during   *)
(* a run is chosen with the run (faulty).                                 *)

TransportOutcomes(r) == IF task[r].faulty THEN {"ok", "raise"} ELSE {"ok"}

----------------------------------------------------------------------------
(* _update_mqtt_state: reads the globals and hands a snapshot to the MQTT *)
(* handler; it writes no global.                                          *)

_update_mqtt_state == UNCHANGED globals

\* What the handler has published once _update_mqtt_state() has returned
\* (line 63: if mqtt_handler and mqtt_handler.is_enabled; handler.py:
\* update_state).  current_file is passed as
\* status.get('current_playing_file', ''), which is None while no file plays,
\* and update_state publishes it only if it is not None; playlist is passed
\* only while current_playlist is set, with its files, current_index and
\* is_clearing, and published only if it is not None.  is_running is passed
\* as not (stop_requested or pause_requested) (line 77) and always published;
\* idle records that current_playing_file was None in that call.
Published ==
    IF ~hist.reported.on THEN hist.reported ELSE
    [on       |-> TRUE,
     running  |-> ~(stop_requested \/ pause_requested),
     idle     |-> current_playing_file = None,
     file     |-> IF current_playing_file # None
                     THEN current_playing_file ELSE hist.reported.file,
     playlist |-> IF current_playlist # None
                     THEN Some(task[current_playlist[1]].file_paths)
                     ELSE hist.reported.playlist,
     index    |-> IF current_playlist # None
                     THEN current_playing_index ELSE hist.reported.index,
     clearing |-> IF current_playlist # None
                     THEN is_clearing ELSE hist.reported.clearing]

----------------------------------------------------------------------------
(* run_theta_rho_file(file_path, schedule_hours)                          *)

\* return from run_theta_rho_file to its caller (the thread's target or
\* run_theta_rho_files)
run_theta_rho_file_return(r) ==
    /\ Step(r, [pc |-> task[r].fret, fret |-> "exit", file_path |-> None,
                total |-> 0, i |-> 0, response |-> ""])
    /\ hist' = [hist EXCEPT !.sent[r] = <<>>, !.ack[r] = FALSE,
                            !.failed[r] = FALSE, !.stopCtx[r] = "none",
                            !.waited[r] = FALSE, !.unpaused[r] = FALSE,
                            !.lateCall[r] = FALSE,
                            !.lastFailed[r] = hist.failed[r],
                            !.reported = Published]

\* Line 159 of a runner that starts only when no other call is active.
run_theta_rho_file_159_exclusive(r) ==
    /\ At(r, "f159")
    /\ \A q \in Tasks \ {r} : task[q].pc \notin FilePcs \ {"f159"}
    /\ stop_requested' = FALSE
    /\ Step(r, [pc |-> "f160"])
    /\ hist' = [hist EXCEPT !.sent[r] = <<>>, !.ack[r] = FALSE,
                            !.failed[r] = FALSE, !.stopCtx[r] = "none",
                            !.waited[r] = FALSE, !.unpaused[r] = FALSE,
                            !.lateCall[r] = (hist.stopped[r] # "no"),
                            !.broke[r] = FALSE,
                            !.atStop[r] = Merge(@, [blocked |-> FALSE])]
    /\ UNCHANGED <<pause_requested, cond_owner, cond_waiters,
                   current_playing_file, execution_progress,
                   current_playing_index, current_playlist, is_clearing,
                   ctl, waiter, now>>

\* stop_requested = False
run_theta_rho_file_159(r) ==
    /\ At(r, "f159")
    /\ stop_requested' = FALSE
    /\ Step(r, [pc |-> "f160"])
    /\ hist' = [hist EXCEPT !.sent[r] = <<>>, !.ack[r] = FALSE,
                            !.failed[r] = FALSE, !.stopCtx[r] = "none",
                            !.waited[r] = FALSE, !.unpaused[r] = FALSE,
                            !.lateCall[r] = (hist.stopped[r] # "no"),
                            !.broke[r] = FALSE,
                            !.atStop[r] = Merge(@, [blocked |-> FALSE])]
    /\ UNCHANGED <<pause_requested, cond_owner, cond_waiters,
                   current_playing_file, execution_progress,
                   current_playing_index, current_playlist, is_clearing,
                   ctl, waiter, now>>

\* current_playing_file = file_path
run_theta_rho_file_160(r) ==
    /\ At(r, "f160")
    /\ current_playing_file' = task[r].file_path
    /\ Step(r, [pc |-> "f161"])
    /\ UNCHANGED <<stop_requested, pause_requested, cond_owner, cond_waiters,
                   execution_progress, current_playing_index,
                   current_playlist, is_clearing, ctl, waiter, now, hist>>

\* execution_progress = (0, 0)
run_theta_rho_file_161(r) ==
    /\ At(r, "f161")
    /\ execution_progress' = Some(<<0, 0>>)
    /\ Step(r, [pc |-> "f162"])
    /\ UNCHANGED <<stop_requested, pause_requested, cond_owner, cond_waiters,
                   current_playing_file, current_playing_index,
                   current_playlist, is_clearing, ctl, waiter, now, hist>>

\* The rejection test as total_coordinates < 1.
run_theta_rho_file_162_accepts_one(r) ==
    /\ At(r, "f162")
    /\ _update_mqtt_state
    /\ LET total == Points(task[r].file_path[1]) IN
       Step(r, [pc |-> IF total < 1 THEN "f168" ELSE "f174", total |-> total])
    /\ hist' = [hist EXCEPT !.reported = Published]
    /\ UNCHANGED <<cond_owner, cond_waiters, ctl, waiter, now>>

\* _update_mqtt_state(); coordinates = parse_theta_rho_file(file_path);
\* total_coordinates = len(coordinates); if total_coordinates < 2
run_theta_rho_file_162(r) ==
    /\ At(r, "f162")
    /\ _update_mqtt_state
    /\ LET total == Points(task[r].file_path[1]) IN
       Step(r, [pc |-> IF total < 2 THEN "f168" ELSE "f174", total |-> total])
    /\ hist' = [hist EXCEPT !.reported = Published]
    /\ UNCHANGED <<cond_owner, cond_waiters, ctl, waiter, now>>

\* current_playing_file = None (too few coordinates)
run_theta_rho_file_168(r) ==
    /\ At(r, "f168")
    /\ current_playing_file' = None
    /\ Step(r, [pc |-> "f169"])
    /\ UNCHANGED <<stop_requested, pause_requested, cond_owner, cond_waiters,
                   execution_progress, current_playing_index,
                   current_playlist, is_clearing, ctl, waiter, now, hist>>

\* execution_progress = None
run_theta_rho_file_169(r) ==
    /\ At(r, "f169")
    /\ execution_progress' = None
    /\ Step(r, [pc |-> "f170"])
    /\ UNCHANGED <<stop_requested, pause_requested, cond_owner, cond_waiters,
                   current_playing_file, current_playing_index,
                   current_playlist, is_clearing, ctl, waiter, now, hist>>

\* _update_mqtt_state(); return
run_theta_rho_file_170(r) ==
    /\ At(r, "f170")
    /\ _update_mqtt_state
    /\ run_theta_rho_file_return(r)
    /\ UNCHANGED <<cond_owner, cond_waiters, ctl, waiter, now>>

\* execution_progress = (0, total_coordinates); batch_size = 10; the loop
\* starts at i = 0
run_theta_rho_file_174(r) ==
    /\ At(r, "f174")
    /\ execution_progress' = Some(<<0, task[r].total>>)
    /\ Step(r, [pc |-> "f177", i |-> 0])
    /\ UNCHANGED <<stop_requested, pause_requested, cond_owner, cond_waiters,
                   current_playing_file, current_playing_index,
                   current_playlist, is_clearing, ctl, waiter, now, hist>>

\* if stop_requested: break
StopObserved == stop_requested

\* for i in range(0, total_coordinates, batch_size): if stop_requested: break
run_theta_rho_file_177(r) ==
    /\ At(r, "f177")
    /\ Step(r, [pc |-> IF task[r].i \notin BatchStarts(task[r].total)
                          THEN "f202"
                       ELSE IF StopObserved THEN "f202" ELSE "f182"])
    /\ hist' = [hist EXCEPT !.broke[r] =
                   task[r].i \in BatchStarts(task[r].total) /\ StopObserved]
    /\ UNCHANGED <<globals, cond_owner, cond_waiters, ctl, waiter, now>>

\* The lock of pause_condition is released by its holder.
Release(t) == cond_owner' = IF cond_owner = t THEN NoOne ELSE cond_owner

\* The pause check left out.
PauseNeverObserved == FALSE

\* while pause_requested:
PauseObserved == pause_requested

\* The with block entered without the lock: the pause check and wait() are
\* no longer atomic with respect to the threads that notify.
run_theta_rho_file_182_unlocked(r) ==
    /\ At(r, "f182")
    /\ Step(r, [pc |-> "f183"])
    /\ UNCHANGED <<globals, cond_owner, cond_waiters, ctl, waiter, now, hist>>

\* with pause_condition: (the lock is acquired)
run_theta_rho_file_182(r) ==
    /\ At(r, "f182")
    /\ cond_owner = NoOne
    /\ cond_owner' = r
    /\ Step(r, [pc |-> "f183"])
    /\ UNCHANGED <<globals, cond_waiters, ctl, waiter, now, hist>>

\* while pause_requested: ... ; leaving the with block releases the lock;
\* batch = coordinates[i:i + batch_size]; if i == 0
run_theta_rho_file_183(r) ==
    /\ At(r, "f183")
    /\ IF PauseObserved
          THEN /\ Step(r, [pc |-> "f185"])
               /\ UNCHANGED cond_owner
          ELSE /\ Step(r, [pc |-> IF task[r].i = 0 THEN "f190" ELSE "f195"])
               /\ Release(r)
    /\ hist' = [hist EXCEPT !.unpaused[r] = ~pause_requested]
    /\ UNCHANGED <<globals, cond_waiters, ctl, waiter, now>>

\* _update_mqtt_state() (paused)
run_theta_rho_file_185(r) ==
    /\ At(r, "f185")
    /\ _update_mqtt_state
    /\ Step(r, [pc |-> "f186"])
    /\ hist' = [hist EXCEPT !.reported = Published]
    /\ UNCHANGED <<cond_owner, cond_waiters, ctl, waiter, now>>

\* pause_condition.wait(): release the lock and block
run_theta_rho_file_186(r) ==
    /\ At(r, "f186")
    /\ Release(r)
    /\ cond_waiters' = cond_waiters \cup {r}
    /\ Step(r, [pc |-> "f186w"])
    /\ hist' = [hist EXCEPT !.waited[r] = TRUE]
    /\ UNCHANGED <<globals, ctl, waiter, now>>

\* wait() returning into the next iteration of the for loop: the batch of
\* the iteration that was paused is skipped.
run_theta_rho_file_186_wake_skips(r) ==
    /\ At(r, "f186w")
    /\ r \notin cond_waiters
    /\ cond_owner = NoOne
    /\ Step(r, [pc |-> "f177", i |-> task[r].i + BatchSize])
    /\ UNCHANGED <<globals, cond_owner, cond_waiters, ctl, waiter, now, hist>>

\* pause_condition.wait() returns: notified, and the lock re-acquired
run_theta_rho_file_186_wake(r) ==
    /\ At(r, "f186w")
    /\ r \notin cond_waiters
    /\ cond_owner = NoOne
    /\ cond_owner' = r
    /\ Step(r, [pc |-> "f183"])
    /\ UNCHANGED <<globals, cond_waiters, ctl, waiter, now, hist>>

\* The first batch sent outside the try block: an exception ends the thread.
run_theta_rho_file_190_propagates(r) ==
    /\ At(r, "f190")
    /\ \E out \in TransportOutcomes(r) :
          IF out = "ok"
             THEN Step(r, [pc |-> "f191"]) /\ LogBatch(r, task[r].i)
             ELSE Step(r, [pc |-> "crashed"]) /\ LogFailure(r, "batch")
    /\ UNCHANGED <<globals, cond_owner, cond_waiters, ctl, waiter, now>>

\* send_coordinate_batch(batch) for the first batch
run_theta_rho_file_190(r) ==
    /\ At(r, "f190")
    /\ \E out \in TransportOutcomes(r) :
          IF out = "ok"
             THEN Step(r, [pc |-> "f191"]) /\ LogBatch(r, task[r].i)
             ELSE Step(r, [pc |-> "f208"]) /\ LogFailure(r, "batch")
    /\ UNCHANGED <<globals, cond_owner, cond_waiters, ctl, waiter, now>>

\* execution_progress = (i + batch_size, total_coordinates); continue
run_theta_rho_file_191(r) ==
    /\ At(r, "f191")
    /\ execution_progress' = Some(<<task[r].i + BatchSize, task[r].total>>)
    /\ Step(r, [pc |-> "f177", i |-> task[r].i + BatchSize])
    /\ hist' = [hist EXCEPT !.unpaused[r] = FALSE]
    /\ UNCHANGED <<stop_requested, pause_requested, cond_owner, cond_waiters,
                   current_playing_file, current_playing_index,
                   current_playlist, is_clearing, ctl, waiter, now>>

\* The window taken as closed: start_time <= now <= end_time.
InWindowClosed(schedule_hours, t) ==
    schedule_hours[1][1] <= t /\ t <= schedule_hours[1][2]

\* start_time <= now < end_time
InWindow(schedule_hours, t) ==
    schedule_hours[1][1] <= t /\ t < schedule_hours[1][2]

\* schedule_checker(schedule_hours), lines 122-128, called by task r, which
\* continues at `back` when the call returns
schedule_checker_122(r, back) ==
    /\ IF task[r].schedule_hours = None
          THEN Step(r, [pc |-> back])
          ELSE IF InWindow(task[r].schedule_hours, now)
                  THEN Step(r, [pc |-> "s131", sret |-> back])
                  ELSE Step(r, [pc |-> "s137", sret |-> back])
    /\ UNCHANGED <<globals, cond_owner, cond_waiters, ctl, waiter, now, hist>>

\* while True: schedule_checker(schedule_hours)
run_theta_rho_file_195(r) ==
    /\ At(r, "f195")
    /\ schedule_checker_122(r, "f196")

\* response = send_command("R")
run_theta_rho_file_196(r) ==
    /\ At(r, "f196")
    /\ \/ \E reply \in Replies :
             /\ Step(r, [pc |-> "f197", response |-> reply])
             /\ LogPoll(r, reply)
       \/ /\ "raise" \in TransportOutcomes(r)
          /\ Step(r, [pc |-> "f208"])
          /\ LogFailure(r, "R")
    /\ UNCHANGED <<globals, cond_owner, cond_waiters, ctl, waiter, now>>

\* Any reply taken for the acknowledgement.
AcknowledgedAnyReply(response) == response \in Replies

\* response == "R"
Acknowledged(response) == response = "R"

\* A reply other than "R" taken for a failure of the transport.
run_theta_rho_file_197_raises(r) ==
    /\ At(r, "f197")
    /\ Step(r, [pc |-> IF Acknowledged(task[r].response) THEN "f198" ELSE "f208"])
    /\ UNCHANGED <<globals, cond_owner, cond_waiters, ctl, waiter, now, hist>>

\* if response == "R": ... else the while loop repeats
run_theta_rho_file_197(r) ==
    /\ At(r, "f197")
    /\ Step(r, [pc |-> IF Acknowledged(task[r].response) THEN "f198" ELSE "f195"])
    /\ UNCHANGED <<globals, cond_owner, cond_waiters, ctl, waiter, now, hist>>

\* send_coordinate_batch(batch) for a later batch
run_theta_rho_file_198(r) ==
    /\ At(r, "f198")
    /\ \E out \in TransportOutcomes(r) :
          IF out = "ok"
             THEN Step(r, [pc |-> "f199"]) /\ LogBatch(r, task[r].i)
             ELSE Step(r, [pc |-> "f208"]) /\ LogFailure(r, "batch")
    /\ UNCHANGED <<globals, cond_owner, cond_waiters, ctl, waiter, now>>

\* execution_progress = (i + batch_size, total_coordinates); break
run_theta_rho_file_199(r) ==
    /\ At(r, "f199")
    /\ execution_progress' = Some(<<task[r].i + BatchSize, task[r].total>>)
    /\ Step(r, [pc |-> "f177", i |-> task[r].i + BatchSize, response |-> ""])
    /\ hist' = [hist EXCEPT !.unpaused[r] = FALSE]
    /\ UNCHANGED <<stop_requested, pause_requested, cond_owner, cond_waiters,
                   current_playing_file, current_playing_index,
                   current_playlist, is_clearing, ctl, waiter, now>>

\* reset_theta()
run_theta_rho_file_202(r) ==
    /\ At(r, "f202")
    /\ \E out \in TransportOutcomes(r) :
          IF out = "ok"
             THEN Step(r, [pc |-> "f203"]) /\ LogCall(r, "reset_theta")
             ELSE Step(r, [pc |-> "f208"]) /\ LogFailure(r, "reset_theta")
    /\ UNCHANGED <<globals, cond_owner, cond_waiters, ctl, waiter, now>>

\* send_command("FINISHED")
run_theta_rho_file_203(r) ==
    /\ At(r, "f203")
    /\ \E out \in TransportOutcomes(r) :
          IF out = "ok"
             THEN Step(r, [pc |-> "f208"]) /\ LogCall(r, "FINISHED")
             ELSE Step(r, [pc |-> "f208"]) /\ LogFailure(r, "FINISHED")
    /\ UNCHANGED <<globals, cond_owner, cond_waiters, ctl, waiter, now>>

\* finally: current_playing_file = None
run_theta_rho_file_208(r) ==
    /\ At(r, "f208")
    /\ current_playing_file' = None
    /\ Step(r, [pc |-> "f209"])
    /\ UNCHANGED <<stop_requested, pause_requested, cond_owner, cond_waiters,
                   execution_progress, current_playing_index,
                   current_playlist, is_clearing, ctl, waiter, now, hist>>

\* The finally clause leaving execution_progress as it is.
run_theta_rho_file_209_skipped(r) ==
    /\ At(r, "f209")
    /\ Step(r, [pc |-> "f210"])
    /\ UNCHANGED <<globals, cond_owner, cond_waiters, ctl, waiter, now, hist>>

\* execution_progress = None
run_theta_rho_file_209(r) ==
    /\ At(r, "f209")
    /\ execution_progress' = None
    /\ Step(r, [pc |-> "f210"])
    /\ UNCHANGED <<stop_requested, pause_requested, cond_owner, cond_waiters,
                   current_playing_file, current_playing_index,
                   current_playlist, is_clearing, ctl, waiter, now, hist>>

\* _update_mqtt_state(); the function returns
run_theta_rho_file_210(r) ==
    /\ At(r, "f210")
    /\ _update_mqtt_state
    /\ run_theta_rho_file_return(r)
    /\ UNCHANGED <<cond_owner, cond_waiters, ctl, waiter, now>>

----------------------------------------------------------------------------
(* schedule_checker(schedule_hours), lines 129-138, and the threads it    *)
(* starts (wait_for_start_time)                                           *)

\* pause_condition.notify_all()
notify_all == cond_waiters' = {}

\* pause_requested = False (within the schedule)
schedule_checker_131(r) ==
    /\ At(r, "s131")
    /\ pause_requested' = FALSE
    /\ Step(r, [pc |-> "s132"])
    /\ hist' = [hist EXCEPT !.gate = FALSE]
    /\ UNCHANGED <<stop_requested, cond_owner, cond_waiters,
                   current_playing_file, execution_progress,
                   current_playing_index, current_playlist, is_clearing,
                   ctl, waiter, now>>

\* with pause_condition: pause_condition.notify_all(); return
schedule_checker_132(r) ==
    /\ At(r, "s132")
    /\ cond_owner = NoOne
    /\ notify_all
    /\ Step(r, [pc |-> task[r].sret, sret |-> ""])
    /\ UNCHANGED <<globals, cond_owner, ctl, waiter, now, hist>>

\* pause_requested = True (outside the schedule)
schedule_checker_137(r) ==
    /\ At(r, "s137")
    /\ pause_requested' = TRUE
    /\ Step(r, [pc |-> "s138"])
    /\ hist' = [hist EXCEPT !.gate = TRUE]
    /\ UNCHANGED <<stop_requested, cond_owner, cond_waiters,
                   current_playing_file, execution_progress,
                   current_playing_index, current_playlist, is_clearing,
                   ctl, waiter, now>>

NumWaiters == waiter["w145"] + waiter["w147"] + waiter["w149"] + waiter["w150"]

\* threading.Thread(target=wait_for_start_time, ...).start(); return.
\* The model holds at most MaxWaiters such threads.  With that many alive,
\* the new thread is merged with one that is in the polling loop (lines
\* 145-147), which then stands at line 145 as the new one does; while all of
\* them are past the loop (lines 149-151) the start waits for one to end.
schedule_checker_138(r) ==
    /\ At(r, "s138")
    /\ NumWaiters < MaxWaiters \/ waiter["w145"] + waiter["w147"] > 0
    /\ waiter' = IF NumWaiters < MaxWaiters
                    THEN [waiter EXCEPT !["w145"] = @ + 1]
                 ELSE IF waiter["w145"] > 0
                    THEN waiter
                 ELSE [waiter EXCEPT !["w147"] = @ - 1, !["w145"] = @ + 1]
    /\ Step(r, [pc |-> task[r].sret, sret |-> ""])
    /\ UNCHANGED <<globals, cond_owner, cond_waiters, ctl, now, hist>>

\* schedule_hours of the wait_for_start_time threads: that of the run thread,
\* whose schedule_checker started them.
WaiterHours == task[Started].schedule_hours

\* One wait_for_start_time thread moves from position `from` to `to`
\* ("exit": the thread ends).
WaiterMoves(from, to) ==
    /\ waiter[from] > 0
    /\ waiter' = IF to = "exit"
                    THEN [waiter EXCEPT ![from] = @ - 1]
                    ELSE [waiter EXCEPT ![from] = @ - 1, ![to] = @ + 1]

\* while pause_requested:
wait_for_start_time_145 ==
    /\ WaiterMoves("w145", IF pause_requested THEN "w147" ELSE "exit")
    /\ UNCHANGED <<globals, cond_owner, cond_waiters, task, ctl, now, hist>>

\* now = datetime.now().time(); if start_time <= now < end_time: ...
\* else: time.sleep(30)
wait_for_start_time_147 ==
    /\ WaiterMoves("w147", IF InWindow(WaiterHours, now) THEN "w149" ELSE "w145")
    /\ UNCHANGED <<globals, cond_owner, cond_waiters, task, ctl, now, hist>>

\* The thread leaving pause_requested as it found it.
wait_for_start_time_149_keeps ==
    /\ WaiterMoves("w149", "w150")
    /\ hist' = [hist EXCEPT !.gate = FALSE]
    /\ UNCHANGED <<globals, cond_owner, cond_waiters, task, ctl, now>>

\* pause_requested = False
wait_for_start_time_149 ==
    /\ WaiterMoves("w149", "w150")
    /\ pause_requested' = FALSE
    /\ hist' = [hist EXCEPT !.gate = FALSE]
    /\ UNCHANGED <<stop_requested, cond_owner, cond_waiters,
                   current_playing_file, execution_progress,
                   current_playing_index, current_playlist, is_clearing,
                   task, ctl, now>>

\* The thread ending without notify_all().
wait_for_start_time_150_silent ==
    /\ WaiterMoves("w150", "exit")
    /\ cond_owner = NoOne
    /\ UNCHANGED <<globals, cond_owner, cond_waiters, task, ctl, now, hist>>

\* with pause_condition: pause_condition.notify_all(); break
wait_for_start_time_150 ==
    /\ WaiterMoves("w150", "exit")
    /\ cond_owner = NoOne
    /\ notify_all
    /\ UNCHANGED <<globals, cond_owner, task, ctl, now, hist>>

\* The time of day advances.
Tick ==
    /\ now' = (now + 1) % DayLen
    /\ UNCHANGED <<globals, cond_owner, cond_waiters, task, ctl, waiter, hist>>

----------------------------------------------------------------------------
(* run_theta_rho_files(file_paths, pause_time, clear_pattern, run_mode,   *)
(*                     shuffle, schedule_hours)                           *)

RECURSIVE Perms(_)
\* The orders random.shuffle can leave a list in.
Perms(s) ==
    IF Len(s) <= 1 THEN {s}
    ELSE UNION {{<<s[k]>> \o t :
                   t \in Perms([j \in 1..(Len(s) - 1) |->
                                   IF j < k THEN s[j] ELSE s[j + 1]])} :
                k \in 1..Len(s)}

\* The list refilled by drawing from it with replacement.
Resampled(r) ==
    IF task[r].shuffle
       THEN [1..Len(task[r].file_paths) ->
                {task[r].file_paths[k] : k \in 1..Len(task[r].file_paths)}]
       ELSE {task[r].file_paths}

\* if shuffle: random.shuffle(file_paths)
Shuffled(r) ==
    IF task[r].shuffle THEN Perms(task[r].file_paths) ELSE {task[r].file_paths}

\* The lookup without its default: an unknown key is returned as it is.
get_clear_pattern_file_no_default(pattern_name) ==
    IF pattern_name = "random" THEN ClearFiles
    ELSE IF pattern_name \in DOMAIN CLEAR_PATTERNS
            THEN {CLEAR_PATTERNS[pattern_name]}
            ELSE {pattern_name}

\* get_clear_pattern_file(pattern_name): the paths it can return
get_clear_pattern_file(pattern_name) ==
    IF pattern_name = "random" THEN ClearFiles
    ELSE IF pattern_name \in DOMAIN CLEAR_PATTERNS
            THEN {CLEAR_PATTERNS[pattern_name]}
            ELSE {CLEAR_PATTERNS["clear_from_in"]}

\* return (lines 237, 242, 257): the thread ends without reset_theta
run_theta_rho_files_return(r) == [pc |-> "exit", idx |-> 0]

\* stop_requested = False
run_theta_rho_files_223(r) ==
    /\ At(r, "p223")
    /\ stop_requested' = FALSE
    /\ Step(r, [pc |-> "p229"])
    /\ UNCHANGED <<pause_requested, cond_owner, cond_waiters,
                   current_playing_file, execution_progress,
                   current_playing_index, current_playlist, is_clearing,
                   ctl, waiter, now, hist>>

\* if shuffle: random.shuffle(file_paths); current_playlist = file_paths;
\* the first pass starts
run_theta_rho_files_229(r) ==
    /\ At(r, "p229")
    /\ \E order \in Shuffled(r) :
          Step(r, [pc |-> "p233", file_paths |-> order, idx |-> 0])
    /\ current_playlist' = Some(r)
    /\ UNCHANGED <<stop_requested, pause_requested, cond_owner, cond_waiters,
                   current_playing_file, execution_progress,
                   current_playing_index, is_clearing, ctl, waiter, now, hist>>

\* for idx, path in enumerate(file_paths): current_playing_index = idx
\* (after the last item the for loop ends)
run_theta_rho_files_233(r) ==
    /\ At(r, "p233")
    /\ IF task[r].idx < Len(task[r].file_paths)
          THEN /\ current_playing_index' = Some(task[r].idx)
               /\ Step(r, [pc |-> "p234"])
          ELSE /\ UNCHANGED current_playing_index
               /\ Step(r, [pc |-> "p262"])
    /\ UNCHANGED <<stop_requested, pause_requested, cond_owner, cond_waiters,
                   current_playing_file, execution_progress,
                   current_playlist, is_clearing, ctl, waiter, now, hist>>

\* schedule_checker(schedule_hours)
run_theta_rho_files_234(r) ==
    /\ At(r, "p234")
    /\ schedule_checker_122(r, "p235")

\* if stop_requested: return; if clear_pattern:
run_theta_rho_files_235(r) ==
    /\ At(r, "p235")
    /\ Step(r, IF stop_requested THEN run_theta_rho_files_return(r)
               ELSE IF task[r].clear_pattern # None THEN [pc |-> "p240"]
               ELSE [pc |-> "p250"])
    /\ UNCHANGED <<globals, cond_owner, cond_waiters, ctl, waiter, now, hist>>

\* if stop_requested: return; clear_file_path = get_clear_pattern_file(...)
run_theta_rho_files_240(r) ==
    /\ At(r, "p240")
    /\ IF stop_requested
          THEN Step(r, run_theta_rho_files_return(r))
          ELSE \E f \in get_clear_pattern_file(task[r].clear_pattern[1]) :
                  Step(r, [pc |-> "p246", file_path |-> Some(f)])
    /\ UNCHANGED <<globals, cond_owner, cond_waiters, ctl, waiter, now, hist>>

\* is_clearing = True; run_theta_rho_file(clear_file_path, schedule_hours)
run_theta_rho_files_246(r) ==
    /\ At(r, "p246")
    /\ is_clearing' = TRUE
    /\ Step(r, [pc |-> "f159", fret |-> "p248"])
    /\ UNCHANGED <<stop_requested, pause_requested, cond_owner, cond_waiters,
                   current_playing_file, execution_progress,
                   current_playing_index, current_playlist, ctl, waiter,
                   now, hist>>

\* is_clearing = False
run_theta_rho_files_248(r) ==
    /\ At(r, "p248")
    /\ is_clearing' = FALSE
    /\ Step(r, [pc |-> "p250"])
    /\ UNCHANGED <<stop_requested, pause_requested, cond_owner, cond_waiters,
                   current_playing_file, execution_progress,
                   current_playing_index, current_playlist, ctl, waiter,
                   now, hist>>

\* The target run whether or not a stop is requested.
run_theta_rho_files_250_always(r) ==
    /\ At(r, "p250")
    /\ Step(r, [pc |-> "f159", fret |-> "p254",
                file_path |-> Some(task[r].file_paths[task[r].idx + 1])])
    /\ UNCHANGED <<globals, cond_owner, cond_waiters, ctl, waiter, now, hist>>

\* if not stop_requested: run_theta_rho_file(path, schedule_hours)
run_theta_rho_files_250(r) ==
    /\ At(r, "p250")
    /\ Step(r, IF stop_requested
                  THEN [pc |-> "p254"]
                  ELSE [pc |-> "f159", fret |-> "p254",
                        file_path |-> Some(task[r].file_paths[task[r].idx + 1])])
    /\ UNCHANGED <<globals, cond_owner, cond_waiters, ctl, waiter, now, hist>>

\* if idx < len(file_paths) - 1: if stop_requested: return;
\* time.sleep(pause_time); the for loop takes the next item
run_theta_rho_files_254(r) ==
    /\ At(r, "p254")
    /\ Step(r, IF task[r].idx < Len(task[r].file_paths) - 1 /\ stop_requested
                  THEN run_theta_rho_files_return(r)
                  ELSE [pc |-> "p233", idx |-> task[r].idx + 1])
    /\ UNCHANGED <<globals, cond_owner, cond_waiters, ctl, waiter, now, hist>>

\* if run_mode == "indefinite": time.sleep(pause_time);
\* if shuffle: random.shuffle(file_paths); continue -- else: break.
\* The list is shuffled in place: current_playlist, while it refers to it,
\* shows the new order.
run_theta_rho_files_262(r) ==
    /\ At(r, "p262")
    /\ IF task[r].run_mode = "indefinite"
          THEN /\ \E order \in Shuffled(r) :
                     Step(r, [pc |-> "p233", file_paths |-> order, idx |-> 0])
               /\ hist' = [hist EXCEPT
                              !.passDone[r] = TRUE,
                              !.newPass[r] = @ \/ hist.stopped[r] = "later"]
          ELSE /\ Step(r, [pc |-> "p275", idx |-> 0])
               /\ UNCHANGED hist
    /\ UNCHANGED <<globals, cond_owner, cond_waiters, ctl, waiter, now>>

\* reset_theta(): an exception ends the thread
run_theta_rho_files_275(r) ==
    /\ At(r, "p275")
    /\ \E out \in TransportOutcomes(r) :
          Step(r, [pc |-> IF out = "ok" THEN "p276" ELSE "crashed"])
    /\ LogCall(r, "reset_theta")
    /\ UNCHANGED <<globals, cond_owner, cond_waiters, ctl, waiter, now>>

\* send_command("FINISHED"); the function returns
run_theta_rho_files_276(r) ==
    /\ At(r, "p276")
    /\ \E out \in TransportOutcomes(r) :
          Step(r, [pc |-> IF out = "ok" THEN "exit" ELSE "crashed"])
    /\ LogCall(r, "FINISHED")
    /\ UNCHANGED <<globals, cond_owner, cond_waiters, ctl, waiter, now>>

----------------------------------------------------------------------------
(* The control plane: stop_execution, pause_execution, resume_execution,  *)
(* each served by a thread of the HTTP or the MQTT front end.             *)

\* The run is inside the loop of run_theta_rho_files (or in a file it runs).
InPlaylistLoop(r) ==
    task[r].kind = "playlist" /\ task[r].pc \notin {"p223", "p229", "exit", "crashed"}

\* The run is inside a call of run_theta_rho_file.
InFileRun(r) ==
    \/ task[r].pc \in FilePcs
    \/ task[r].pc \in SchedulePcs /\ task[r].sret = "f196"

\* The run is inside the while True loop of lines 194-200 and the device has
\* not acknowledged the batch.
InRetry(r) ==
    \/ task[r].pc \in {"f195", "f196"}
    \/ task[r].pc \in SchedulePcs /\ task[r].sret = "f196"
    \/ task[r].pc = "f197" /\ task[r].response # "R"

\* A stop, pause or resume request arrives (POST /stop_execution,
\* /pause_execution, /resume_execution, or the MQTT callbacks): the model
\* serves one request at a time and ctl.left more requests in all.  While
\* the MQTT thread has called one of the three (ctl.cmd), that call is the
\* one served.
Request(cmd) == ctl.pc = "idle" /\ ctl.left > 0 /\ ctl.cmd \in {"any", cmd}

\* with pause_condition: pause_requested = False
stop_execution_297 ==
    /\ Request("stop")
    /\ cond_owner = NoOne
    /\ cond_owner' = Ctl
    /\ pause_requested' = FALSE
    /\ ctl' = [ctl EXCEPT !.pc = "stop298", !.left = @ - 1, !.cmd = "any"]
    /\ hist' = [hist EXCEPT
                   !.gate = FALSE,
                   !.stopCalled = TRUE,
                   !.atStop = [r \in Tasks |->
                                 [blocked |-> r \in cond_waiters,
                                  inLoop |-> InPlaylistLoop(r),
                                  afterPass |-> hist.passDone[r]]]]
    /\ UNCHANGED <<stop_requested, cond_waiters, current_playing_file,
                   execution_progress, current_playing_index,
                   current_playlist, is_clearing, task, waiter, now>>

\* pause_condition.notify_all(); the with block ends
stop_execution_298 ==
    /\ ctl.pc = "stop298"
    /\ notify_all
    /\ cond_owner' = NoOne
    /\ ctl' = [ctl EXCEPT !.pc = "stop300"]
    /\ UNCHANGED <<globals, task, waiter, now, hist>>

\* stop_requested = True
stop_execution_300 ==
    /\ ctl.pc = "stop300"
    /\ stop_requested' = TRUE
    /\ ctl' = [ctl EXCEPT !.pc = "stop301"]
    /\ UNCHANGED <<pause_requested, cond_owner, cond_waiters,
                   current_playing_file, execution_progress,
                   current_playing_index, current_playlist, is_clearing,
                   task, waiter, now, hist>>

\* current_playing_index = None
stop_execution_301 ==
    /\ ctl.pc = "stop301"
    /\ current_playing_index' = None
    /\ ctl' = [ctl EXCEPT !.pc = "stop302"]
    /\ UNCHANGED <<stop_requested, pause_requested, cond_owner, cond_waiters,
                   current_playing_file, execution_progress,
                   current_playlist, is_clearing, task, waiter, now, hist>>

\* current_playlist = None
stop_execution_302 ==
    /\ ctl.pc = "stop302"
    /\ current_playlist' = None
    /\ ctl' = [ctl EXCEPT !.pc = "stop303"]
    /\ UNCHANGED <<stop_requested, pause_requested, cond_owner, cond_waiters,
                   current_playing_file, execution_progress,
                   current_playing_index, is_clearing, task, waiter, now,
                   hist>>

\* is_clearing = False
stop_execution_303 ==
    /\ ctl.pc = "stop303"
    /\ is_clearing' = FALSE
    /\ ctl' = [ctl EXCEPT !.pc = "stop304"]
    /\ UNCHANGED <<stop_requested, pause_requested, cond_owner, cond_waiters,
                   current_playing_file, execution_progress,
                   current_playing_index, current_playlist, task, waiter,
                   now, hist>>

\* current_playing_file = None
stop_execution_304 ==
    /\ ctl.pc = "stop304"
    /\ current_playing_file' = None
    /\ ctl' = [ctl EXCEPT !.pc = "stop305"]
    /\ UNCHANGED <<stop_requested, pause_requested, cond_owner, cond_waiters,
                   execution_progress, current_playing_index,
                   current_playlist, is_clearing, task, waiter, now, hist>>

\* execution_progress = None
stop_execution_305 ==
    /\ ctl.pc = "stop305"
    /\ execution_progress' = None
    /\ ctl' = [ctl EXCEPT !.pc = "stop307"]
    /\ UNCHANGED <<stop_requested, pause_requested, cond_owner, cond_waiters,
                   current_playing_file, current_playing_index,
                   current_playlist, is_clearing, task, waiter, now, hist>>

\* _update_mqtt_state(); stop_execution returns
stop_execution_307 ==
    /\ ctl.pc = "stop307"
    /\ _update_mqtt_state
    /\ ctl' = [ctl EXCEPT !.pc = "idle"]
    /\ hist' = [hist EXCEPT
                   !.reported = Published,
                   !.atStop = [r \in Tasks |-> NoStop],
                   !.stopCtx = [r \in Tasks |->
                                  IF ~InFileRun(r) THEN "none"
                                  ELSE IF hist.atStop[r].blocked THEN "wait"
                                  ELSE IF InRetry(r) THEN "retry"
                                  ELSE "other"],
                   !.stopped = [r \in Tasks |->
                                  IF ~hist.atStop[r].inLoop THEN @[r]
                                  ELSE IF hist.atStop[r].afterPass THEN "later"
                                  ELSE IF @[r] = "no" THEN "first" ELSE @[r]]]
    /\ UNCHANGED <<cond_owner, cond_waiters, task, waiter, now>>

\* pause_requested = True
pause_execution_312 ==
    /\ Request("pause")
    /\ pause_requested' = TRUE
    /\ ctl' = [ctl EXCEPT !.pc = "pause313", !.left = @ - 1, !.cmd = "any"]
    /\ hist' = [hist EXCEPT !.gate = FALSE]
    /\ UNCHANGED <<stop_requested, cond_owner, cond_waiters,
                   current_playing_file, execution_progress,
                   current_playing_index, current_playlist, is_clearing,
                   task, waiter, now>>

\* _update_mqtt_state(); pause_execution returns
pause_execution_313 ==
    /\ ctl.pc = "pause313"
    /\ _update_mqtt_state
    /\ ctl' = [ctl EXCEPT !.pc = "idle"]
    /\ hist' = [hist EXCEPT !.reported = Published]
    /\ UNCHANGED <<cond_owner, cond_waiters, task, waiter, now>>

\* resume_execution clearing a pending stop as well.
resume_execution_319_clears_stop ==
    /\ Request("resume")
    /\ cond_owner = NoOne
    /\ cond_owner' = Ctl
    /\ pause_requested' = FALSE
    /\ stop_requested' = FALSE
    /\ ctl' = [ctl EXCEPT !.pc = "resume320", !.left = @ - 1, !.cmd = "any"]
    /\ hist' = [hist EXCEPT !.gate = FALSE]
    /\ UNCHANGED <<cond_waiters, current_playing_file, execution_progress,
                   current_playing_index, current_playlist, is_clearing,
                   task, waiter, now>>

\* with pause_condition: pause_requested = False
resume_execution_319 ==
    /\ Request("resume")
    /\ cond_owner = NoOne
    /\ cond_owner' = Ctl
    /\ pause_requested' = FALSE
    /\ ctl' = [ctl EXCEPT !.pc = "resume320", !.left = @ - 1, !.cmd = "any"]
    /\ hist' = [hist EXCEPT !.gate = FALSE]
    /\ UNCHANGED <<stop_requested, cond_waiters, current_playing_file,
                   execution_progress, current_playing_index,
                   current_playlist, is_clearing, task, waiter, now>>

\* pause_condition.notify_all(); the with block ends
resume_execution_320 ==
    /\ ctl.pc = "resume320"
    /\ notify_all
    /\ cond_owner' = NoOne
    /\ ctl' = [ctl EXCEPT !.pc = "resume321"]
    /\ UNCHANGED <<globals, task, waiter, now, hist>>

\* _update_mqtt_state(); resume_execution returns
resume_execution_321 ==
    /\ ctl.pc = "resume321"
    /\ _update_mqtt_state
    /\ ctl' = [ctl EXCEPT !.pc = "idle"]
    /\ hist' = [hist EXCEPT !.reported = Published]
    /\ UNCHANGED <<cond_owner, cond_waiters, task, waiter, now>>

----------------------------------------------------------------------------
(* parse_theta_rho_file(file_path).  A file is a sequence of lines and a  *)
(* line, stripped and split, a sequence of tokens.  A float is a finite   *)
(* number (an integer stands for it), an infinity or nan.                 *)

Num(v) == [kind |-> "num", val |-> v]
Inf == [kind |-> "inf", val |-> 1]
NaN == [kind |-> "nan", val |-> 0]
\* a token float() does not accept, a token that begins with "#", and bytes
\* that cannot be decoded (or any other failure of the read)
Word == [kind |-> "word", val |-> 0]
Hash == [kind |-> "hash", val |-> 0]
BadBytes == [kind |-> "bytes", val |-> 0]

\* float(token) raises ValueError
NotAFloat(token) == token.kind \notin {"num", "inf", "nan"}

\* a - b in floating point
FSub(a, b) ==
    IF a.kind = "nan" \/ b.kind = "nan" THEN NaN
    ELSE IF a.kind = "inf" /\ b.kind = "inf"
            THEN IF a.val = b.val THEN NaN ELSE a
    ELSE IF a.kind = "inf" THEN a
    ELSE IF b.kind = "inf" THEN [kind |-> "inf", val |-> 0 - b.val]
    ELSE Num(a.val - b.val)

\* iterating the file raises (UnicodeDecodeError, OSError) at this line
Unreadable(line) == \E k \in 1..Len(line) : line[k].kind = "bytes"

\* not line or line.startswith("#")
Skipped(line) == line = <<>> \/ line[1].kind = "hash"

\* theta, rho = map(float, line.split()) raises ValueError
Malformed(line) ==
    Len(line) # 2 \/ \E k \in 1..Len(line) : NotAFloat(line[k])

\* [(theta - first_theta, rho) for theta, rho in coordinates]
Normalized(coordinates) ==
    [k \in 1..Len(coordinates) |->
        <<FSub(coordinates[k][1], coordinates[1][1]), coordinates[k][2]>>]

\* with open(file_path, 'r') as file: -- except FileNotFoundError: return []
parse_theta_rho_file_87(r) ==
    /\ At(r, "x87")
    /\ Step(r, [pc |-> IF task[r].content.exists THEN "x88" ELSE "x100",
                coordinates |-> <<>>, lineno |-> 1])
    /\ UNCHANGED <<globals, cond_owner, cond_waiters, ctl, waiter, now, hist>>

\* A line that raises ValueError ends the loop.
parse_theta_rho_file_88_aborts(r) ==
    /\ At(r, "x88")
    /\ LET lines == task[r].content.lines
           n == task[r].lineno
       IN IF n > Len(lines) THEN Step(r, [pc |-> "x106"])
          ELSE IF Unreadable(lines[n]) THEN Step(r, [pc |-> "x103"])
          ELSE IF Skipped(lines[n]) THEN Step(r, [lineno |-> n + 1])
          ELSE IF Malformed(lines[n]) THEN Step(r, [pc |-> "x106"])
          ELSE Step(r, [lineno |-> n + 1,
                        coordinates |-> Append(task[r].coordinates, lines[n])])
    /\ UNCHANGED <<globals, cond_owner, cond_waiters, ctl, waiter, now, hist>>

\* for line in file: one iteration of the loop (lines 88-97), or its end, or
\* an exception of the read (line 101)
parse_theta_rho_file_88(r) ==
    /\ At(r, "x88")
    /\ LET lines == task[r].content.lines
           n == task[r].lineno
       IN IF n > Len(lines) THEN Step(r, [pc |-> "x106"])
          ELSE IF Unreadable(lines[n]) THEN Step(r, [pc |-> "x103"])
          ELSE IF Skipped(lines[n]) \/ Malformed(lines[n])
                  THEN Step(r, [lineno |-> n + 1])
          ELSE Step(r, [lineno |-> n + 1,
                        coordinates |-> Append(task[r].coordinates, lines[n])])
    /\ UNCHANGED <<globals, cond_owner, cond_waiters, ctl, waiter, now, hist>>

\* except FileNotFoundError: return coordinates
parse_theta_rho_file_100(r) ==
    /\ At(r, "x100")
    /\ Step(r, [pc |-> "returned"])
    /\ UNCHANGED <<globals, cond_owner, cond_waiters, ctl, waiter, now, hist>>

\* except Exception: return coordinates
parse_theta_rho_file_103(r) ==
    /\ At(r, "x103")
    /\ Step(r, [pc |-> "returned"])
    /\ UNCHANGED <<globals, cond_owner, cond_waiters, ctl, waiter, now, hist>>

\* if coordinates: ... coordinates = normalized; return coordinates
parse_theta_rho_file_106(r) ==
    /\ At(r, "x106")
    /\ Step(r, [pc |-> "returned",
                coordinates |-> IF task[r].coordinates # <<>>
                                   THEN Normalized(task[r].coordinates)
                                   ELSE task[r].coordinates])
    /\ UNCHANGED <<globals, cond_owner, cond_waiters, ctl, waiter, now, hist>>

ParseStep(r) ==
    \/ parse_theta_rho_file_87(r) \/ parse_theta_rho_file_88(r)
    \/ parse_theta_rho_file_100(r) \/ parse_theta_rho_file_103(r)
    \/ parse_theta_rho_file_106(r)

----------------------------------------------------------------------------
(* The MQTT front end (modules/mqtt/handler.py: MQTTHandler.on_message,   *)
(* modules/mqtt/utils.py: create_mqtt_callbacks).  A message is           *)
(* [topic, payload]: a pattern name on the pattern_select topic, or a     *)
(* command on the command topic.                                          *)

Select(pattern_name) == [topic |-> "pattern/set", payload |-> pattern_name]
Command(command) == [topic |-> "command", payload |-> command]

\* The broker delivers the next message to the client; the network thread
\* finds it when it is back in its loop.
mqtt_deliver(r) ==
    /\ task[r].kind = "mqtt"
    /\ task[r].outbox # <<>>
    /\ Step(r, [inbox |-> Append(task[r].inbox, Head(task[r].outbox)),
                outbox |-> Tail(task[r].outbox)])
    /\ UNCHANGED <<globals, cond_owner, cond_waiters, ctl, waiter, now, hist>>

\* on_message, pattern_select topic (handler.py:245-249):
\* self.callback_registry['run_pattern'](file_path=...), which is
\* lambda file_path: run_theta_rho_file(file_path) (utils.py:13): the run
\* is a call on the network thread.
on_message_249(r) ==
    /\ At(r, "m240")
    /\ task[r].inbox # <<>>
    /\ Head(task[r].inbox).topic = "pattern/set"
    /\ Step(r, [pc |-> "f159", fret |-> "m250",
                file_path |-> Some(Head(task[r].inbox).payload),
                inbox |-> Tail(task[r].inbox)])
    /\ UNCHANGED <<globals, cond_owner, cond_waiters, ctl, waiter, now, hist>>

\* self.client.publish(pattern_select_topic/state, ...); on_message returns
on_message_250(r) ==
    /\ At(r, "m250")
    /\ Step(r, [pc |-> "m240"])
    /\ UNCHANGED <<globals, cond_owner, cond_waiters, ctl, waiter, now, hist>>

\* on_message, command topic (handler.py:251-258):
\* self.callback_registry[command](**params) with stop_execution,
\* pause_execution or resume_execution, called on the network thread
on_message_258(r) ==
    /\ At(r, "m240")
    /\ task[r].inbox # <<>>
    /\ Head(task[r].inbox).topic = "command"
    /\ ctl.pc = "idle" /\ ctl.cmd = "any"
    /\ ctl' = [ctl EXCEPT !.left = @ + 1, !.cmd = Head(task[r].inbox).payload]
    /\ Step(r, [pc |-> "m258", inbox |-> Tail(task[r].inbox)])
    /\ UNCHANGED <<globals, cond_owner, cond_waiters, waiter, now, hist>>

\* the callback has returned; on_message returns
on_message_258_return(r) ==
    /\ At(r, "m258")
    /\ ctl.pc = "idle" /\ ctl.cmd = "any"
    /\ Step(r, [pc |-> "m240"])
    /\ UNCHANGED <<globals, cond_owner, cond_waiters, ctl, waiter, now, hist>>

MqttStep(r) ==
    \/ mqtt_deliver(r) \/ on_message_249(r) \/ on_message_250(r)
    \/ on_message_258(r) \/ on_message_258_return(r)

----------------------------------------------------------------------------
(* The threads a request starts (app.py: api_run_specific_theta_rho_file, *)
(* api_run_theta_rho, api_run_playlist)                                   *)

NoTask ==
    [kind |-> "off", pc |-> "off", file_path |-> None, fret |-> "exit",
     total |-> 0, i |-> 0, response |-> "", sret |-> "",
     file_paths |-> <<>>, idx |-> 0, clear_pattern |-> None,
     run_mode |-> "single", shuffle |-> FALSE, schedule_hours |-> None,
     faulty |-> FALSE, mqtt |-> FALSE, inbox |-> <<>>, outbox |-> <<>>,
     content |-> [exists |-> FALSE, lines |-> <<>>], lineno |-> 0,
     coordinates |-> <<>>]

\* threading.Thread(target=run_theta_rho_file, args=(file_path,))
FileRun(path, faulty) ==
    Merge(NoTask, [kind |-> "file", pc |-> "f159", file_path |-> Some(path),
                   faulty |-> faulty])

\* threading.Thread(target=run_theta_rho_files, args=(file_paths,), kwargs=...)
PlaylistRun(paths, clear_pattern, run_mode, shuffle, schedule_hours) ==
    Merge(NoTask, [kind |-> "playlist", pc |-> "p223", file_paths |-> paths,
                   clear_pattern |-> clear_pattern, run_mode |-> run_mode,
                   shuffle |-> shuffle, schedule_hours |-> schedule_hours])

\* The network thread of the MQTT client (handler.py: client.loop_start()),
\* which calls on_message for one message after the other; `messages` are
\* those the broker will deliver.
MqttThread(messages) ==
    Merge(NoTask, [kind |-> "mqtt", pc |-> "m240", mqtt |-> TRUE,
                   outbox |-> messages])

\* The module's globals as the import of pattern_manager leaves them
\* (lines 23-30), the run threads `runs` started, at time t; `calls` stop,
\* pause or resume requests will arrive.
InitOf(runs, t, calls) ==
    /\ stop_requested = FALSE
    /\ pause_requested = FALSE
    /\ cond_owner = NoOne
    /\ cond_waiters = {}
    /\ current_playing_file = None
    /\ execution_progress = None
    /\ current_playing_index = None
    /\ current_playlist = None
    /\ is_clearing = FALSE
    /\ task = runs
    /\ ctl = [pc |-> "idle", left |-> calls, cmd |-> "any"]
    /\ waiter = [w \in WaiterPcs |-> 0]
    /\ now = t
    /\ hist = [sent |-> [r \in Tasks |-> <<>>],
               ack |-> [r \in Tasks |-> FALSE],
               failed |-> [r \in Tasks |-> FALSE],
               waited |-> [r \in Tasks |-> FALSE],
               unpaused |-> [r \in Tasks |-> FALSE],
               lateCall |-> [r \in Tasks |-> FALSE],
               stopCalled |-> FALSE,
               atStop |-> [r \in Tasks |-> NoStop],
               stopCtx |-> [r \in Tasks |-> "none"],
               stopped |-> [r \in Tasks |-> "no"],
               passDone |-> [r \in Tasks |-> FALSE],
               newPass |-> [r \in Tasks |-> FALSE],
               tail |-> [r \in Tasks |-> "none"],
               lastFailed |-> [r \in Tasks |-> FALSE],
               broke |-> [r \in Tasks |-> FALSE],
               reported |-> [on |-> runs[Started].mqtt, running |-> FALSE,
                             idle |-> TRUE, file |-> None,
                             playlist |-> None, index |-> None,
                             clearing |-> FALSE],
               input |-> [r \in Tasks |-> runs[r].file_paths],
               gate |-> FALSE]

\* One run thread started with arguments `run`.
InitWith(run, t, calls) ==
    InitOf([r \in Tasks |-> IF r = Started THEN run ELSE NoTask], t, calls)

\* A step of run thread r.
RunStep(r) ==
    \/ run_theta_rho_file_159(r) \/ run_theta_rho_file_160(r)
    \/ run_theta_rho_file_161(r) \/ run_theta_rho_file_162(r)
    \/ run_theta_rho_file_168(r) \/ run_theta_rho_file_169(r)
    \/ run_theta_rho_file_170(r) \/ run_theta_rho_file_174(r)
    \/ run_theta_rho_file_177(r) \/ run_theta_rho_file_182(r)
    \/ run_theta_rho_file_183(r) \/ run_theta_rho_file_185(r)
    \/ run_theta_rho_file_186(r) \/ run_theta_rho_file_186_wake(r)
    \/ run_theta_rho_file_190(r) \/ run_theta_rho_file_191(r)
    \/ run_theta_rho_file_195(r) \/ run_theta_rho_file_196(r)
    \/ run_theta_rho_file_197(r) \/ run_theta_rho_file_198(r)
    \/ run_theta_rho_file_199(r) \/ run_theta_rho_file_202(r)
    \/ run_theta_rho_file_203(r) \/ run_theta_rho_file_208(r)
    \/ run_theta_rho_file_209(r) \/ run_theta_rho_file_210(r)

PlaylistStep(r) ==
    \/ run_theta_rho_files_223(r) \/ run_theta_rho_files_229(r)
    \/ run_theta_rho_files_233(r) \/ run_theta_rho_files_234(r)
    \/ run_theta_rho_files_235(r) \/ run_theta_rho_files_240(r)
    \/ run_theta_rho_files_246(r) \/ run_theta_rho_files_248(r)
    \/ run_theta_rho_files_250(r) \/ run_theta_rho_files_254(r)
    \/ run_theta_rho_files_262(r) \/ run_theta_rho_files_275(r)
    \/ run_theta_rho_files_276(r)

ScheduleStep(r) ==
    \/ schedule_checker_131(r) \/ schedule_checker_132(r)
    \/ schedule_checker_137(r) \/ schedule_checker_138(r)

WaiterStep ==
    \/ wait_for_start_time_145 \/ wait_for_start_time_147
    \/ wait_for_start_time_149 \/ wait_for_start_time_150

ControlStep ==
    \/ stop_execution_297 \/ stop_execution_298 \/ stop_execution_300
    \/ stop_execution_301 \/ stop_execution_302 \/ stop_execution_303
    \/ stop_execution_304 \/ stop_execution_305 \/ stop_execution_307
    \/ pause_execution_312 \/ pause_execution_313
    \/ resume_execution_319 \/ resume_execution_320 \/ resume_execution_321

----------------------------------------------------------------------------
(* Specifications *)

\* One single-file run (POST /run_theta_rho_file/<file_name>) with the
\* control plane.
FileRuns == {FileRun(path, faulty) : path \in PatternFiles, faulty \in BOOLEAN}

Init == \E run \in FileRuns : InitWith(run, 0, MaxCalls)

Next ==
    \/ \E r \in Tasks : RunStep(r)
    \/ ControlStep

Spec == Init /\ [][Next]_vars

\* One playlist run (POST /run_playlist) without a schedule window, with the
\* control plane.
PlaylistOf(n) == [j \in 1..n |-> IF j % 2 = 1 THEN "short.thr" ELSE "two.thr"]

PlaylistRuns ==
    {PlaylistRun(PlaylistOf(n), None, run_mode, FALSE, None) :
        n \in 1..MaxFiles, run_mode \in {"single", "indefinite"}}
    \cup {PlaylistRun(<<"one.thr">>, Some("clear_from_in"), "single", FALSE,
                       None)}

InitPlaylist == \E run \in PlaylistRuns : InitWith(run, 0, MaxCalls)

NextPlaylist ==
    \/ \E r \in Tasks : RunStep(r)
    \/ \E r \in Tasks : PlaylistStep(r)
    \/ ControlStep

SpecPlaylist == InitPlaylist /\ [][NextPlaylist]_vars

\* One playlist run with each clear pattern name a request can give: the
\* keys of CLEAR_PATTERNS, "random" and a name that is no key; no stop, pause
\* or resume request arrives.
ClearNames == DOMAIN CLEAR_PATTERNS \cup {"random", "adaptive"}

ClearRuns ==
    {PlaylistRun(PlaylistOf(n), Some(name), "single", FALSE, None) :
        n \in 1..MaxFiles, name \in ClearNames}

InitClear == \E run \in ClearRuns : InitWith(run, 0, 0)

\* The steps of a call of run_theta_rho_file that is not rejected and finds
\* pause_requested false.
StreamStep(r) ==
    \/ run_theta_rho_file_159(r) \/ run_theta_rho_file_160(r)
    \/ run_theta_rho_file_161(r) \/ run_theta_rho_file_162(r)
    \/ run_theta_rho_file_174(r) \/ run_theta_rho_file_177(r)
    \/ run_theta_rho_file_182(r) \/ run_theta_rho_file_183(r)
    \/ run_theta_rho_file_190(r) \/ run_theta_rho_file_191(r)
    \/ run_theta_rho_file_195(r) \/ run_theta_rho_file_196(r)
    \/ run_theta_rho_file_197(r) \/ run_theta_rho_file_198(r)
    \/ run_theta_rho_file_199(r) \/ run_theta_rho_file_202(r)
    \/ run_theta_rho_file_203(r) \/ run_theta_rho_file_208(r)
    \/ run_theta_rho_file_209(r) \/ run_theta_rho_file_210(r)

NextClear ==
    \/ \E r \in Tasks : PlaylistStep(r)
    \/ \E r \in Tasks : StreamStep(r)

SpecClear == InitClear /\ [][NextClear]_vars

\* Two single-file runs, each started by its own request (app.py 138-146
\* starts a thread per request and returns), and one stop request.
StopStep ==
    \/ stop_execution_297 \/ stop_execution_298 \/ stop_execution_300
    \/ stop_execution_301 \/ stop_execution_302 \/ stop_execution_303
    \/ stop_execution_304 \/ stop_execution_305 \/ stop_execution_307

ConcurrentFiles == {"two.thr", "long.thr"}

InitConcurrent ==
    \E paths \in [Tasks -> ConcurrentFiles] :
       InitOf([r \in Tasks |-> FileRun(paths[r], FALSE)], 0, MaxScheduledCalls)

NextConcurrent ==
    \/ \E r \in Tasks : StreamStep(r)
    \/ StopStep

SpecConcurrent == InitConcurrent /\ [][NextConcurrent]_vars

\* One shuffled playlist run, a path occurring twice in the list.
ShuffledPaths ==
    [j \in 1..(MaxFiles + 1) |-> IF j = 1 THEN "short.thr" ELSE "one.thr"]

ShuffledRuns ==
    {PlaylistRun(ShuffledPaths, Some("clear_from_in"), "single", TRUE, None),
     PlaylistRun(ShuffledPaths, None, "indefinite", TRUE, None)}

InitShuffled == \E run \in ShuffledRuns : InitWith(run, 0, MaxCalls)

SpecShuffled == InitShuffled /\ [][NextPlaylist]_vars

\* One playlist run, with a clear pattern, while an MQTT handler is set and
\* enabled (set_mqtt_handler, line 56).
WithMqttHandler(run) == Merge(run, [mqtt |-> TRUE])

ReportedRuns ==
    {WithMqttHandler(PlaylistRun(<<"short.thr", "one.thr">>,
                                 Some("clear_from_in"), "single", FALSE, None))}

InitReported == \E run \in ReportedRuns : InitWith(run, 0, MaxCalls)

SpecReported == InitReported /\ [][NextPlaylist]_vars

\* One playlist run, with a clear pattern, over a link that can fail.
OverFaultyLink(run) == Merge(run, [faulty |-> TRUE])

FaultyPlaylistRuns ==
    {OverFaultyLink(PlaylistRun(<<"short.thr", "one.thr">>,
                                Some("clear_from_in"), "single", FALSE, None))}

InitFaulty == \E run \in FaultyPlaylistRuns : InitWith(run, 0, MaxCalls)

SpecFaulty == InitFaulty /\ [][NextPlaylist]_vars

\* One playlist run with a schedule window: the clock, the schedule gate and
\* the wait_for_start_time threads take part.
ScheduledRuns ==
    {PlaylistRun(<<"one.thr">>, Some("clear_from_in"), "single", FALSE,
                 Some(Window))}

InitScheduled ==
    \E run \in ScheduledRuns, t \in 0..(DayLen - 1) :
       InitWith(run, t, MaxScheduledCalls)

NextScheduled ==
    \/ \E r \in Tasks : RunStep(r)
    \/ \E r \in Tasks : PlaylistStep(r)
    \/ \E r \in Tasks : ScheduleStep(r)
    \/ WaiterStep
    \/ ControlStep
    \/ Tick

SpecScheduled == InitScheduled /\ [][NextScheduled]_vars

\* The MQTT client connected: the broker delivers MaxMessages messages, and
\* one request arrives over HTTP.
MaxMessages == 2

MqttPatterns == {"one.thr", "two.thr"}

Messages ==
    {Select(name) : name \in MqttPatterns}
    \cup {Command(c) : c \in {"stop", "pause", "resume"}}

RECURSIVE Sessions(_)
Sessions(n) ==
    IF n = 0 THEN {<<>>}
    ELSE {<<m>> \o rest : m \in Messages, rest \in Sessions(n - 1)}

InitMqtt ==
    \E messages \in Sessions(MaxMessages) :
       InitWith(MqttThread(messages), 0, MaxScheduledCalls)

NextMqtt ==
    \/ \E r \in Tasks : RunStep(r)
    \/ \E r \in Tasks : MqttStep(r)
    \/ ControlStep

SpecMqtt == InitMqtt /\ [][NextMqtt]_vars

\* One call of parse_theta_rho_file on a file of at most MaxLines lines, or
\* on a path with no file.
MaxLines == 3

LinePool ==
    {<<Num(2), Num(1)>>, <<Num(5), Num(0)>>, <<Inf, Num(1)>>, <<NaN, Num(0)>>,
     <<Num(1)>>, <<Num(1), Num(2), Num(3)>>, <<Word, Num(1)>>, <<Num(1), Hash>>,
     <<>>, <<Hash, Num(1), Num(1)>>, <<BadBytes>>}

RECURSIVE FilesOf(_)
FilesOf(n) ==
    IF n = 0 THEN {<<>>}
    ELSE FilesOf(n - 1)
         \cup {<<line>> \o rest : line \in LinePool,
                                  rest \in {f \in FilesOf(n - 1) : Len(f) = n - 1}}

Contents ==
    {[exists |-> TRUE, lines |-> f] : f \in FilesOf(MaxLines)}
    \cup {[exists |-> FALSE, lines |-> <<>>]}

ParseCall(content) ==
    Merge(NoTask, [kind |-> "parse", pc |-> "x87", content |-> content])

InitParse == \E content \in Contents : InitWith(ParseCall(content), 0, 0)

NextParse == \E r \in Tasks : ParseStep(r)

SpecParse == InitParse /\ [][NextParse]_vars

\* The schedule windows a request can give (app.py: start_time must be
\* earlier than end_time), and playlist runs with each of them.
Windows == {w \in (0..DayLen) \X (0..DayLen) : w[1] < w[2]}

GateRuns ==
    ScheduledRuns
    \cup {PlaylistRun(<<"one.thr">>, None, "single", FALSE, Some(w)) :
             w \in Windows}

InitGate ==
    \E run \in GateRuns, t \in 0..(DayLen - 1) :
       InitWith(run, t, MaxScheduledCalls)

SpecGate == InitGate /\ [][NextScheduled]_vars

\* A request that has arrived is served to its end.
ControlFinish ==
    \/ stop_execution_298 \/ stop_execution_300 \/ stop_execution_301
    \/ stop_execution_302 \/ stop_execution_303 \/ stop_execution_304
    \/ stop_execution_305 \/ stop_execution_307
    \/ pause_execution_313
    \/ resume_execution_320 \/ resume_execution_321

\* The same run under a fair scheduler: every thread that can take a step
\* eventually takes one, and the clock advances.  Requests need not arrive.
Fairness ==
    /\ \A r \in Tasks : WF_vars(RunStep(r) \/ PlaylistStep(r) \/ ScheduleStep(r))
    /\ WF_vars(wait_for_start_time_145)
    /\ WF_vars(wait_for_start_time_147)
    /\ WF_vars(wait_for_start_time_149)
    /\ WF_vars(wait_for_start_time_150)
    /\ WF_vars(ControlFinish)
    /\ WF_vars(Tick)

SpecFair == InitScheduled /\ [][NextScheduled]_vars /\ Fairness

\* A wait_for_start_time thread polls the clock every 30 seconds and the
\* window is longer than that: threads that stay in the polling loop (lines
\* 145-147) for ever do not miss every opening of the window.
PollsInWindow == wait_for_start_time_147 /\ InWindow(WaiterHours, now)

PollFairness ==
    \/ []<>(waiter["w145"] + waiter["w147"] = 0)
    \/ []<><<PollsInWindow>>_vars

SpecFairPoll ==
    InitScheduled /\ [][NextScheduled]_vars /\ Fairness /\ PollFairness

\* send_command("R") returns "R" (line 196).
PollAcknowledged(r) == run_theta_rho_file_196(r) /\ task'[r].response = "R"

\* One single-file run with the control plane: every thread keeps running,
\* and a device that is polled again and again answers "R" at some poll.
DeviceFairness == \A r \in Tasks : SF_vars(PollAcknowledged(r))

SpecFairFile ==
    /\ Init /\ [][Next]_vars
    /\ \A r \in Tasks : WF_vars(RunStep(r))
    /\ WF_vars(ControlFinish)
    /\ DeviceFairness

----------------------------------------------------------------------------
(* Properties *)

\* Run r passes a batch to send_coordinate_batch in this step.
BatchSent(r) == Len(hist'.sent[r]) > Len(hist.sent[r])

\* Run r advances execution_progress in this step (lines 191, 199).
ProgressAdvanced(r) ==
    task[r].pc \in {"f191", "f199"} /\ task'[r].pc = "f177"

\* The batches of a pattern of `total` coordinates, by first index, in order.
ExpectedBatches(total) ==
    [k \in 1..((total + BatchSize - 1) \div BatchSize) |-> (k - 1) * BatchSize]

\* Run r is in the while True loop of lines 194-197, before the batch is
\* sent.
InHandshake(r) ==
    \/ task[r].pc \in {"f195", "f196", "f197"}
    \/ task[r].pc \in SchedulePcs /\ task[r].sret = "f196"

IsPrefix(s, t) == Len(s) <= Len(t) /\ \A k \in 1..Len(s) : s[k] = t[k]

\* C1: a batch after the first is sent only when the last poll since the
\* previous batch returned "R"; a poll that returned anything else sends no
\* batch, leaves execution_progress as it is and leads back to the head of
\* the handshake loop, which is left only with an acknowledgement (or an
\* exception of the transport).
C1_BatchOnlyAfterAck ==
    [][\A r \in Tasks :
         /\ (BatchSent(r) /\ task[r].i > 0)
               => (hist.ack[r] /\ task[r].response = "R")
         /\ (At(r, "f197") /\ task[r].response # "R" /\ task'[r].pc # "f197")
               => /\ task'[r].pc = "f195"
                  /\ hist'.sent[r] = hist.sent[r]
                  /\ execution_progress' = execution_progress
         /\ (InHandshake(r) /\ ~InHandshake(r)')
               => \/ task'[r].pc = "f198" /\ task'[r].response = "R"
                  \/ task'[r].pc = "f208" /\ hist'.failed[r]]_vars

\* The second batch of the long pattern has been sent and the poll for the
\* third has returned something else than "R".
C1_Witness ==
    \E r \in Tasks :
       /\ At(r, "f197") /\ task[r].response # "R"
       /\ hist.sent[r] = <<0, BatchSize>>

\* C2: no batch is sent after a stop_execution call returned while the run
\* was in the handshake loop with the batch not acknowledged.
C2_StopEndsRetry ==
    [][\A r \in Tasks : BatchSent(r) => hist.stopCtx[r] # "retry"]_vars

\* C3: no batch is sent after the return of a stop_execution call that found
\* the run blocked in the pause wait.
C3_StopEndsPausedRun ==
    [][\A r \in Tasks : BatchSent(r) => hist.stopCtx[r] # "wait"]_vars

\* C4 as stated: a batch is sent, and execution_progress advanced, only
\* while pause_requested is false.
C4_NothingWhilePauseRequested ==
    [][\A r \in Tasks :
         (BatchSent(r) \/ ProgressAdvanced(r)) => ~pause_requested]_vars

\* C4 amended: a batch is sent, and execution_progress advanced, only in a
\* loop iteration whose pause check (line 183, under pause_condition) found
\* pause_requested false, and never while the run is in the pause wait.
C4_BatchOnlyAfterPauseCheck ==
    [][\A r \in Tasks :
         (BatchSent(r) \/ ProgressAdvanced(r))
            => /\ hist.unpaused[r]
               /\ task[r].pc \notin {"f183", "f185", "f186", "f186w"}]_vars

\* A batch has been sent in a call that blocked in the pause wait before.
C4_Witness ==
    \E r \in Tasks : hist.waited[r] /\ At(r, "f191") /\ hist.unpaused[r]

\* C5: the batches sent are a prefix of the pattern's batches, in order, and
\* an accepted run that was never stopped (and whose transport did not fail)
\* has sent all of them when it leaves the try block.
C5_BatchesInOrder ==
    \A r \in Tasks :
       /\ IsPrefix(hist.sent[r], ExpectedBatches(task[r].total))
       /\ (task[r].pc \in {"f208", "f209", "f210"}
           /\ ~hist.failed[r] /\ ~hist.stopCalled)
             => hist.sent[r] = ExpectedBatches(task[r].total)

\* A run of the long pattern that blocked in the pause wait, was resumed and
\* has sent every batch.
C5_Witness ==
    \E r \in Tasks :
       /\ At(r, "f210") /\ hist.waited[r] /\ ~hist.stopCalled
       /\ Len(hist.sent[r]) = MaxBatches

\* A release of the pause wait is under way: stop_execution or
\* resume_execution has cleared pause_requested and is about to notify, or
\* the schedule gate (schedule_checker, wait_for_start_time) is.
ReleasePending ==
    \/ ctl.pc \in {"stop298", "resume320"}
    \/ waiter["w150"] > 0
    \/ \E q \in Tasks : At(q, "s132")

\* Run r has found pause_requested set (line 183) and is about to call
\* wait(), or is in it.
InPauseWait(r) == task[r].pc \in {"f185", "f186", "f186w"}

\* C6: whenever a release is under way while the run has committed to the
\* pause wait or is blocked in it, the run eventually leaves the wait.
C6_ReleaseWakesRun ==
    (InPauseWait(Started) /\ ReleasePending) ~> ~InPauseWait(Started)

\* The run is blocked in wait() while stop_execution, or
\* wait_for_start_time, has cleared pause_requested and is about to notify.
C6_Witness ==
    /\ Started \in cond_waiters
    /\ ctl.pc = "stop298" \/ waiter["w150"] > 0

\* C7: in a playlist run, no call of run_theta_rho_file that begins after a
\* stop_execution call (made during the playlist loop) has returned sends a
\* batch.
C7_NoFileAfterStop ==
    [][\A r \in Tasks : BatchSent(r) => ~hist.lateCall[r]]_vars

\* C8: after a stop_execution call made once a full pass has completed, no
\* file streams in a pass that began after the call returned.
C8_NoPassAfterStop ==
    [][\A r \in Tasks : BatchSent(r) => ~hist.newPass[r]]_vars

\* C9: execution_progress is set only while current_playing_file is set
\* (stated for the states in which no thread is between the two assignments
\* that set or clear the pair).
C9_ProgressOnlyWithFile ==
    (ctl.pc # "stop305" /\ \A r \in Tasks : task[r].pc \notin {"f169", "f209"})
       => (execution_progress # None => current_playing_file # None)

\* C10: after a playlist run has terminated, current_playlist and
\* current_playing_index are None.
C10_PlaylistClearedAfterRun ==
    \A r \in Tasks :
       (task[r].kind = "playlist" /\ task[r].pc = "exit" /\ ctl.pc = "idle")
          => (current_playlist = None /\ current_playing_index = None)

\* C11: when stop_execution returns, stop_requested is true, pause_requested
\* false and the five status fields are cleared; and no step of a run that
\* reads stop_requested (line 178) or pause_requested (line 183) is taken
\* between the stop's clearing of pause_requested and its setting of
\* stop_requested.
C11_StopIsAtomic ==
    [][/\ (ctl.pc = "stop307" /\ ctl'.pc = "idle")
            => /\ stop_requested' /\ ~pause_requested'
               /\ current_playing_file' = None /\ execution_progress' = None
               /\ current_playing_index' = None /\ current_playlist' = None
               /\ ~is_clearing'
       /\ \A r \in Tasks :
             (task[r].pc \in {"f177", "f183"} /\ task'[r].pc # task[r].pc)
                => ~(ctl.pc = "stop300" /\ ~pause_requested /\ ~stop_requested)
      ]_vars

\* The call of run_theta_rho_file by thread r returns in this step.
FileCallReturns(r) == InFileRun(r) /\ ~InFileRun(r)'

\* C12: a call of run_theta_rho_file returns only from line 170-171 or from
\* the finally clause (line 210-211), with current_playing_file and
\* execution_progress None before its last _update_mqtt_state() and when it
\* has returned.
C12_RunClearsState ==
    [][\A r \in Tasks :
         FileCallReturns(r)
            => /\ task[r].pc \in {"f170", "f210"}
               /\ current_playing_file = None /\ execution_progress = None
               /\ current_playing_file' = None /\ execution_progress' = None
      ]_vars

\* A call in which the transport raised is about to return, both fields
\* cleared.
C12_Witness ==
    \E r \in Tasks :
       /\ At(r, "f210") /\ hist.failed[r]
       /\ current_playing_file = None /\ execution_progress = None

\* C13: an accepted call of run_theta_rho_file returns with reset_theta()
\* and then send_command("FINISHED") as its last transport calls (unless
\* reset_theta() itself raised).
C13_RunEndsWithFinished ==
    [][\A r \in Tasks :
         (FileCallReturns(r) /\ task[r].pc = "f210")
            => \/ hist.tail[r] = "finished"
               \/ hist.tail[r] = "reset" /\ hist.failed[r]
      ]_vars

\* C14: a playlist thread that has returned has made reset_theta() and then
\* send_command("FINISHED") as its last transport calls.
C14_PlaylistEndsWithFinished ==
    \A r \in Tasks :
       (task[r].kind = "playlist" /\ task[r].pc = "exit")
          => hist.tail[r] = "finished"

\* Thread r takes a step of its own from position pc.
StepsFrom(r, pc) == task[r].pc = pc /\ task'[r].pc # pc

\* Thread r enters schedule_checker with a window in this step.
EntersGate(r) == task[r].pc \notin SchedulePcs /\ task'[r].pc \in SchedulePcs

\* C15 as stated: when schedule_checker returns, pause_requested is true
\* exactly when the time it read was outside [start, end).
C15_PauseAtReturn ==
    [][\A r \in Tasks :
         /\ StepsFrom(r, "s132") => ~pause_requested'
         /\ StepsFrom(r, "s138") => pause_requested'
      ]_vars

\* C15 amended: schedule_checker takes the branch of line 131 exactly when
\* start <= t < end for the time t it reads, and that of line 137 exactly
\* when t < start or t >= end; its assignment sets pause_requested to false
\* in the first and to true in the second, and it writes pause_requested
\* nowhere else.
C15_GateFollowsWindow ==
    [][\A r \in Tasks :
         /\ EntersGate(r)
              => LET start == task[r].schedule_hours[1][1]
                     end == task[r].schedule_hours[1][2]
                 IN /\ task'[r].pc = "s131" <=> (start <= now /\ now < end)
                    /\ task'[r].pc = "s137" <=> (now < start \/ now >= end)
         /\ StepsFrom(r, "s131") => ~pause_requested'
         /\ StepsFrom(r, "s137") => pause_requested'
         /\ (StepsFrom(r, "s132") \/ StepsFrom(r, "s138"))
              => pause_requested' = pause_requested
      ]_vars

\* schedule_checker has read t = end and set pause_requested.
C15_Witness ==
    \E r \in Tasks :
       /\ At(r, "s138") /\ pause_requested
       /\ now = task[r].schedule_hours[1][2]

\* C17: in the handshake for a later batch, no send_command("R") poll and no
\* batch is sent while the schedule gate has set pause_requested and the
\* time is outside the window.
C17_NoPollOutsideWindow ==
    [][\A r \in Tasks :
         (StepsFrom(r, "f196") \/ StepsFrom(r, "f198"))
            => ~(/\ task[r].schedule_hours # None
                 /\ pause_requested
                 /\ ~InWindow(task[r].schedule_hours, now))
      ]_vars

CompletedUndisturbed(r) ==
    /\ task[r].pc \in {"f208", "f209", "f210"}
    /\ ~hist.failed[r] /\ ~hist.stopCalled

\* C18: a run of a pattern of N >= 2 points that was neither stopped nor
\* failed has sent ceil(N / 10) batches, which are consecutive slices of the
\* pattern from its first point to its last, each of 10 points but possibly
\* the last, which holds between 1 and 10.
C18_BatchesPartitionPattern ==
    \A r \in Tasks :
       (CompletedUndisturbed(r) /\ task[r].total >= 2)
          => LET N == task[r].total
                 n == Len(hist.sent[r])
                 batch == [k \in 1..n |-> Slice(N, hist.sent[r][k])]
             IN /\ n = (N + BatchSize - 1) \div BatchSize
                /\ batch[1][1] = 0
                /\ batch[n][2] = N
                /\ \A k \in 2..n : batch[k][1] = batch[k - 1][2]
                /\ \A k \in 1..(n - 1) : batch[k][2] - batch[k][1] = BatchSize
                /\ batch[n][2] - batch[n][1] \in 1..BatchSize

\* The run of the pattern of exactly one full batch has completed.
C18_Witness ==
    \E r \in Tasks :
       /\ CompletedUndisturbed(r) /\ At(r, "f210")
       /\ task[r].total = BatchSize /\ hist.sent[r] = <<0>>

\* C19: whenever execution_progress is (completed, total), completed does
\* not exceed total.
C19_ProgressWithinTotal ==
    execution_progress # None
       => execution_progress[1][1] <= execution_progress[1][2]

\* C20: a pattern that parses to fewer than 2 points takes the rejection
\* path (lines 167-171), on which no transport call is made; the call
\* returns with current_playing_file and execution_progress None, the
\* thread having made no transport call at all.
C20_ShortPatternRejected ==
    [][\A r \in Tasks :
         /\ (StepsFrom(r, "f162") /\ Points(task[r].file_path[1]) < 2)
               => task'[r].pc = "f168"
         /\ task[r].pc \in {"f168", "f169", "f170"}
               => hist'.tail[r] = hist.tail[r]
         /\ (FileCallReturns(r) /\ task[r].pc = "f170")
               => /\ hist'.tail[r] = "none"
                  /\ current_playing_file' = None
                  /\ execution_progress' = None
      ]_vars

\* The run of a missing file is about to return from the rejection path.
C20_Witness ==
    \E r \in Tasks :
       /\ At(r, "f170") /\ task[r].file_path = Some("missing.thr")
       /\ hist.tail[r] = "none"

\* C21: once a transport call has raised in a call of run_theta_rho_file,
\* that call sends nothing more and goes through the finally clause; every
\* call returns to its caller (no exception ends the thread), and a
\* playlist run goes on from the return as from that of any file: with no
\* stop requested, line 254 moves it to the next item.
C21_FailureEndsOnlyTheFile ==
    [][\A r \in Tasks :
         /\ (hist.failed[r] /\ InFileRun(r))
               => /\ task[r].pc \in {"f208", "f209", "f210"}
                  /\ ~BatchSent(r)
                  /\ task'[r].pc \in {task[r].pc, "f209", "f210", task[r].fret}
         /\ FileCallReturns(r)
               => /\ task'[r].pc = task[r].fret
                  /\ task[r].fret \in {"exit", "p248", "p254"}
                  /\ task'[r].idx = task[r].idx
                  /\ task'[r].file_paths = task[r].file_paths
         /\ (StepsFrom(r, "p254") /\ hist.lastFailed[r] /\ ~stop_requested)
               => /\ task'[r].pc = "p233"
                  /\ task'[r].idx = task[r].idx + 1
      ]_vars

\* The transport raised while the first item of the playlist was streaming;
\* the playlist run has gone on to its second item, no stop having been
\* requested.
C21_Witness ==
    \E r \in Tasks :
       /\ task[r].kind = "playlist" /\ task[r].idx = 1 /\ At(r, "p234")
       /\ hist.lastFailed[r] /\ ~hist.stopCalled

\* Run r is streaming a pattern: it has sent a batch and has more to send.
Streaming(r) ==
    /\ InFileRun(r) /\ hist.sent[r] # <<>>
    /\ task[r].pc \in {"f177", "f182", "f183", "f195", "f196", "f197", "f198"}
    /\ task[r].i \in BatchStarts(task[r].total)

\* C22: while a run is streaming, a command that has been delivered on the
\* MQTT channel finds the thread that serves the channel in its dispatch
\* loop or serving a command: that thread is not waiting for a run.
C22_CallerDoesNotWait ==
    \A r \in Tasks :
       \A q \in Tasks :
          (/\ Streaming(r)
           /\ task[q].kind = "mqtt" /\ task[q].inbox # <<>>
           /\ Head(task[q].inbox).topic = "command")
             => task[q].pc \in {"m240", "m258"}

\* The lines of a file that hold exactly two float tokens, in file order.
RECURSIVE ValidLines(_)
ValidLines(lines) ==
    IF lines = <<>> THEN <<>>
    ELSE IF Skipped(Head(lines)) \/ Malformed(Head(lines))
            THEN ValidLines(Tail(lines))
    ELSE <<Head(lines)>> \o ValidLines(Tail(lines))

\* C23: parse_theta_rho_file returns points whose first theta is 0, whose
\* thetas are the raw thetas less the first raw theta and whose rhos are the
\* raw rhos, in file order (the raw points being those it had read when it
\* returned).
C23_NormalizedFromFirst ==
    \A r \in Tasks :
       (task[r].kind = "parse" /\ At(r, "returned") /\ task[r].coordinates # <<>>)
          => LET out == task[r].coordinates
                 raw == ValidLines(SubSeq(task[r].content.lines, 1,
                                          task[r].lineno - 1))
             IN /\ Len(out) = Len(raw)
                /\ out[1][1] = Num(0)
                /\ \A k \in 1..Len(out) :
                      /\ out[k][1] = FSub(raw[k][1], raw[1][1])
                      /\ out[k][2] = raw[k][2]

\* C24: for a file that is read to its end, parse_theta_rho_file returns one
\* point for each line of exactly two float tokens, in the order of these
\* lines (normalised to the first); blank lines, comments and lines of a wrong
\* token count or with a non-numeric token are passed over and the loop goes
\* on to the next line.
C24_ValidLinesKept ==
    [][\A r \in Tasks :
         /\ (StepsFrom(r, "x106") \/ StepsFrom(r, "x100"))
               => LET valid == ValidLines(task[r].content.lines)
                  IN /\ Len(task'[r].coordinates) = Len(valid)
                     /\ task'[r].coordinates
                           = IF valid = <<>> THEN <<>> ELSE Normalized(valid)
         /\ (At(r, "x88") /\ task[r].lineno <= Len(task[r].content.lines)
             /\ ~Unreadable(task[r].content.lines[task[r].lineno])
             /\ Malformed(task[r].content.lines[task[r].lineno]))
               => /\ task'[r].pc = "x88"
                  /\ task'[r].coordinates = task[r].coordinates
      ]_vars

\* A file of a malformed line between two valid lines has been parsed to two
\* points.
C24_Witness ==
    \E r \in Tasks :
       /\ At(r, "returned") /\ Len(task[r].coordinates) = 2
       /\ Len(task[r].content.lines) = 3
       /\ Malformed(task[r].content.lines[2])
       /\ ~Skipped(task[r].content.lines[2])
       /\ ~Unreadable(task[r].content.lines[2])

\* s and t hold the same elements, each as many times.
IsPermutation(s, t) ==
    /\ Len(s) = Len(t)
    /\ \A k \in 1..Len(s) :
          Cardinality({j \in 1..Len(s) : s[j] = s[k]})
             = Cardinality({j \in 1..Len(t) : t[j] = s[k]})

\* C25: with shuffle, the list the playlist runner iterates is at every
\* moment a permutation of the input paths, and current_playlist, once set
\* and until stop_execution clears it, is that very list: a reshuffle
\* (line 268) leaves it a permutation and leaves current_playlist referring
\* to it.
C25_ShuffleIsPermutation ==
    [][\A r \in Tasks :
         (task[r].kind = "playlist" /\ task[r].shuffle)
            => /\ IsPermutation(task'[r].file_paths, hist.input[r])
               /\ current_playlist' \in {None, Some(r)}
               /\ (StepsFrom(r, "p229") \/ (StepsFrom(r, "p262")
                                            /\ current_playlist # None))
                     => current_playlist' = Some(r)
      ]_vars

\* The list has been reshuffled after a pass into an order other than the
\* input's, and is published.
C25_Witness ==
    \E r \in Tasks :
       /\ task[r].shuffle /\ hist.passDone[r] /\ At(r, "p234")
       /\ task[r].file_paths # hist.input[r]
       /\ current_playlist = Some(r)

\* C26: a change of current_playing_file, current_playlist (the list or its
\* order), current_playing_index or is_clearing is made only when the value
\* it replaces has been published: no change of a field goes by without a
\* notification that carried it.
C26_EveryChangeReported ==
    [][/\ current_playing_file' # current_playing_file
            => hist.reported.file = current_playing_file
       /\ current_playing_index' # current_playing_index
            => hist.reported.index = current_playing_index
       /\ is_clearing' # is_clearing
            => hist.reported.clearing = is_clearing
       /\ current_playlist' # current_playlist
            => \/ current_playlist = None /\ hist.reported.playlist = None
               \/ /\ current_playlist # None
                  /\ hist.reported.playlist
                        = Some(task[current_playlist[1]].file_paths)
      ]_vars

\* C27: outside the window, schedule_checker goes on to start a
\* wait_for_start_time thread (lines 137-138) only if it found
\* pause_requested not set.
C27_SpawnOnlyWhenNotPaused ==
    [][\A r \in Tasks :
         (StepsFrom(r, "s137") /\ task'[r].pc = "s138") => ~pause_requested
      ]_vars

\* pause_requested is set, and was last set by pause_execution (line 312) or
\* by the schedule gate (line 137).
UserPaused == pause_requested /\ ~hist.gate
GatePaused == pause_requested /\ hist.gate

\* C28: resume_execution clears a pause set by the schedule gate and its
\* notify_all() releases the run blocked by it; schedule_checker inside the
\* window (line 131) and a wait_for_start_time thread that has seen the
\* window open (line 149) clear a pause set by pause_execution, and their
\* notify_all() (lines 133, 151) releases every thread blocked in wait().
C28_EitherReleasesTheOther ==
    [][/\ (ctl.pc = "idle" /\ ctl'.pc = "resume320" /\ GatePaused)
            => ~pause_requested'
       /\ (ctl.pc = "resume320" /\ ctl'.pc = "resume321")
            => /\ cond_waiters' = {}
               /\ Started \in cond_waiters => ~pause_requested'
       /\ \A r \in Tasks :
             /\ (StepsFrom(r, "s131") /\ UserPaused) => ~pause_requested'
             /\ StepsFrom(r, "s132") => cond_waiters' = {}
       /\ (waiter'["w149"] < waiter["w149"] /\ UserPaused) => ~pause_requested'
       /\ waiter'["w150"] < waiter["w150"] => cond_waiters' = {}
      ]_vars

\* The run is blocked in wait() under a pause set by pause_execution, and a
\* wait_for_start_time thread has seen the window open.
C28_Witness ==
    /\ Started \in cond_waiters /\ UserPaused
    /\ waiter["w149"] > 0

\* The thread serving a request takes a step of pause_execution or of
\* resume_execution.
PauseOrResumeStep ==
    \/ ctl.pc = "idle" /\ ctl'.pc \in {"pause313", "resume320"}
    \/ ctl.pc = "resume320" /\ ctl'.pc = "resume321"
    \/ ctl.pc \in {"pause313", "resume321"} /\ ctl'.pc = "idle"

\* C29: no step of pause_execution or resume_execution changes
\* stop_requested, current_playing_file, execution_progress,
\* current_playlist, current_playing_index or is_clearing; and
\* schedule_checker called with no window returns at once, changing no
\* global, starting no thread and notifying no one.
C29_PauseResumeFrame ==
    [][/\ PauseOrResumeStep
            => UNCHANGED <<stop_requested, current_playing_file,
                           execution_progress, current_playlist,
                           current_playing_index, is_clearing>>
       /\ \A r \in Tasks :
             (StepsFrom(r, "f195") /\ task[r].schedule_hours = None)
                => /\ task'[r].pc = "f196"
                   /\ UNCHANGED <<globals, cond_owner, cond_waiters, waiter>>
      ]_vars

\* resume_execution has cleared pause_requested while a stop is pending.
C29_Witness ==
    /\ ctl.pc = "resume320" /\ stop_requested /\ ~pause_requested
    /\ \E r \in Tasks : InFileRun(r)

\* The playlist run r is between lines 246 and 248: in the call of
\* run_theta_rho_file for the clear pattern, or back from it.
InClearRun(r) ==
    \/ InFileRun(r) /\ task[r].fret = "p248"
    \/ At(r, "p248")

\* C30: is_clearing is true only while a playlist run is running the clear
\* pattern of its current item (lines 246-248), and it is false once a
\* stop_execution call has returned.
C30_ClearingOnlyInClearRun ==
    /\ is_clearing => \E r \in Tasks : InClearRun(r)
    /\ (hist.stopCalled /\ ctl.pc = "idle") => ~is_clearing

\* C31: a playlist run starts files only at lines 247 and 252; the target
\* started at line 252 is the item at position idx, with
\* current_playing_index equal to idx unless stop_execution was called; idx
\* starts a pass at 0 and only ever advances by one, after the item's target
\* step; with a clear pattern, line 252 is reached only from the clear run of
\* the same item; and after a clear run that left its loop because it
\* observed a stop the target is not run.
C31_PassInListOrder ==
    [][\A r \in Tasks :
         task[r].kind = "playlist"
            => /\ (~InFileRun(r) /\ InFileRun(r)')
                     => \/ /\ task[r].pc = "p246" /\ task'[r].fret = "p248"
                           /\ task'[r].file_path[1] \in ClearFiles
                        \/ /\ task[r].pc = "p250" /\ task'[r].fret = "p254"
                           /\ task'[r].file_path
                                 = Some(task[r].file_paths[task[r].idx + 1])
                           /\ ~hist.stopCalled
                                 => current_playing_index = Some(task[r].idx)
               /\ (task'[r].idx # task[r].idx /\ task'[r].pc # "exit")
                     => \/ /\ task[r].pc = "p254" /\ task'[r].pc = "p233"
                           /\ task'[r].idx = task[r].idx + 1
                        \/ /\ task[r].pc = "p262" /\ task'[r].idx = 0
                           /\ task[r].idx = Len(task[r].file_paths)
               /\ (task'[r].pc = "p250" /\ task[r].pc # "p250"
                   /\ task[r].clear_pattern # None)
                     => task[r].pc = "p248"
               /\ (StepsFrom(r, "p250") /\ task[r].clear_pattern # None
                   /\ hist.broke[r])
                     => task'[r].pc = "p254"
      ]_vars

\* With a clear pattern configured, the clear run observed a stop and the
\* target of the item has been passed over.
C31_Witness ==
    \E r \in Tasks :
       /\ At(r, "p254") /\ task[r].clear_pattern # None /\ hist.broke[r]

\* C32: the path line 244 gets from get_clear_pattern_file is a value of
\* CLEAR_PATTERNS: that of the key for a key, that of clear_from_in for a name
\* that is neither a key nor "random"; and for "random" each of the values
\* can be returned.
C32_ClearPathIsPreset ==
    [][\A r \in Tasks :
         (StepsFrom(r, "p240") /\ task'[r].pc = "p246")
            => LET name == task[r].clear_pattern[1]
                   path == task'[r].file_path[1]
               IN /\ path \in ClearFiles
                  /\ name \in DOMAIN CLEAR_PATTERNS => path = CLEAR_PATTERNS[name]
                  /\ name \notin DOMAIN CLEAR_PATTERNS \cup {"random"}
                        => path = CLEAR_PATTERNS["clear_from_in"]
                  /\ name = "random"
                        => \A f \in ClearFiles : f \in get_clear_pattern_file(name)
      ]_vars

\* "random" has returned the last of the presets for the second item.
C32_Witness ==
    \E r \in Tasks :
       /\ At(r, "p246")
       /\ task[r].idx = 1
       /\ task[r].clear_pattern = Some("random")
       /\ task[r].file_path = Some(CLEAR_PATTERNS["clear_sideway"])

\* C33: a call of run_theta_rho_file on a pattern with fewer than 2 points
\* writes stop_requested at none of its steps: a stop_requested that was true
\* when the call started is true when it returns.
C33_RejectedRunKeepsStop ==
    [][\A r \in Tasks :
         (InFileRun(r) /\ Points(task[r].file_path[1]) < 2 /\ task'[r] # task[r])
            => stop_requested' = stop_requested
      ]_vars

\* C34: a call of run_theta_rho_file that another thread begins while a call
\* is active is held back by nothing: its first statement can always be
\* taken, takes it into the call (line 160) and leaves stop_requested false
\* whatever the other run was doing; each run can always send the batch it
\* has reached; and the run that reaches line 208 sets current_playing_file
\* to None whatever the other run is doing.
C34_NoRunExclusion ==
    [][\A r \in Tasks :
         /\ task[r].pc \in {"f159", "f190", "f198", "f208"} => ENABLED StreamStep(r)
         /\ StepsFrom(r, "f159") => task'[r].pc = "f160" /\ ~stop_requested'
         /\ StepsFrom(r, "f208") => current_playing_file' = None
      ]_vars

\* A stop_execution call returned while run r1 was streaming; run r2 began
\* after it, has sent batches and has just cleared current_playing_file;
\* r1 is about to send its next batch, with stop_requested false.
C34_Witness ==
    \E r1, r2 \in Tasks :
       /\ r1 # r2
       /\ hist.stopCtx[r1] # "none" /\ hist.stopCtx[r2] = "none"
       /\ At(r1, "f198") /\ Len(hist.sent[r1]) > 0
       /\ At(r2, "f209") /\ Len(hist.sent[r2]) > 0
       /\ ~stop_requested
       /\ current_playing_file = None

\* C35: a reply other than "R" only repeats the poll (line 194): the run
\* goes back to line 195 with no failure recorded, nothing sent and nothing
\* cleared; and a single-file run whose device answers "R" at some poll and
\* in which pause_requested does not stay set ends with
\* current_playing_file and execution_progress cleared.
C35_RetryUntilAcknowledged ==
    /\ [][\A r \in Tasks :
            (StepsFrom(r, "f197") /\ task[r].response # "R")
               => /\ task'[r].pc = "f195"
                  /\ hist' = hist
                  /\ UNCHANGED globals
         ]_vars
    /\ (<>[]~pause_requested)
          => <>(/\ task[Started].pc = "exit"
                /\ current_playing_file = None
                /\ execution_progress = None)

\* The device has answered a poll with something else than "R" and the run
\* is back at the top of the handshake loop, no failure recorded.
C35_Witness ==
    \E r \in Tasks :
       /\ At(r, "f195") /\ task[r].response = "IGNORED"
       /\ ~hist.failed[r]
       /\ current_playing_file = task[r].file_path

\* C36: the is_running value of the last notification is false if
\* current_playing_file was None when that notification was made.
C36_IdleReportedNotRunning ==
    hist.reported.idle => ~hist.reported.running

\* C37: once a stop_execution call made while the playlist run was in its
\* loop has returned and the run has ended, pause_requested is false.
C37_NoPauseAfterStop ==
    \A r \in Tasks :
       (/\ hist.stopped[r] # "no"
        /\ ctl.pc = "idle"
        /\ task[r].pc = "exit")
          => ~pause_requested

====
